---- MODULE Spec2Model ----
\* Verification model of fcupdater: the worksheet cell/row model, the formula
\* reference rewriter and the master-sheet reconciliation engine.
\*
\* Text is modelled as a sequence of one-character strings, so that trimming,
\* escaping, entity decoding, key normalisation and formula scanning are
\* computed character by character as the code computes them.
EXTENDS Integers, Sequences, FiniteSets, TLC

VARIABLES
    pc,            \* "ready" | "ran1" | "ran2" (reconciliation), "rw_ready" | "rw_done" (rewriter)
    has_sheet,     \* Workbook.sheets contains the master sheet name
    ws_rows,       \* Worksheet.rows : BTreeMap<u32, Row>
    ws_dim,        \* the <dimension> tag of Worksheet.prefix: [tag, max_col, max_row]
    ws_suffix,     \* the conditional-formatting ranges of Worksheet.suffix
    workbook_xml,  \* Workbook.xml_text: the defined names of xl/workbook.xml
    source_index,  \* HashMap<String, SourceRecord>, keyed by normalized address
    rows_before,   \* ws_rows as it was when the latest call started
    result,        \* what the latest update_master_sheet call returned
    first_result,  \* what the first update_master_sheet call returned
    formula,       \* rewriter input: the formula text
    resolver_add,  \* rewriter input: the resolver is r |-> r + resolver_add
    rewritten,     \* rewriter output
    indexer,       \* build_source_index_with_report: paths, loop position, map, report
    call,          \* a call of a function on its own: its arguments and what it returned
    cfb,           \* CfbFile::read_stream_by_name: the file, the loop variables, the result
    saver,         \* XlsxContainer::save_as: the files, the position in the function, the result
    reserve,       \* reserve_nonconflicting_path: the files of the folder and the runs that reserve
    cache          \* the CP949 decode cache and the callers about to store into it

vars == <<pc, has_sheet, ws_rows, ws_dim, ws_suffix, workbook_xml, source_index, rows_before, result,
          first_result, formula, resolver_add, rewritten, indexer, call, cfb,
          saver>>

\* The variables of the parts that run on their own, and their value while
\* another part runs.
Idle == <<>>
OthersIdle(part) ==
    /\ IF part = "indexer" THEN TRUE ELSE indexer = Idle
    /\ IF part = "call" THEN TRUE ELSE call = Idle
    /\ IF part = "cfb" THEN TRUE ELSE cfb = Idle
    /\ IF part = "saver" THEN TRUE ELSE saver = Idle
    /\ IF part = "reserve" THEN TRUE ELSE reserve = Idle
    /\ IF part = "cache" THEN TRUE ELSE cache = Idle
OthersUnchanged(part) ==
    /\ IF part = "indexer" THEN TRUE ELSE UNCHANGED indexer
    /\ IF part = "call" THEN TRUE ELSE UNCHANGED call
    /\ IF part = "cfb" THEN TRUE ELSE UNCHANGED cfb
    /\ IF part = "saver" THEN TRUE ELSE UNCHANGED saver
    /\ IF part = "reserve" THEN TRUE ELSE UNCHANGED reserve
    /\ IF part = "cache" THEN TRUE ELSE UNCHANGED cache

\* ---------------------------------------------------------------- bounds

\* u32::MAX scaled down: every u32 of the model ranges over 0..U32Max.
U32Max == 15
\* The number of row slots below the header that the generated sheets fill with
\* every combination of row kinds (ScenarioSheets has longer bands).
MaxBand == 2
\* The length up to which every formula over FormulaChars is rewritten.
MaxFormulaLen == 4

\* ------------------------------------------------------------ characters

\* Printable ASCII in code order, 32..126 (code 96 is written "grave").
AsciiTable ==
    <<" ", "!", "\"", "#", "$", "%", "&", "'", "(", ")", "*", "+", ",", "-", ".", "/",
      "0", "1", "2", "3", "4", "5", "6", "7", "8", "9", ":", ";", "<", "=", ">", "?",
      "@", "A", "B", "C", "D", "E", "F", "G", "H", "I", "J", "K", "L", "M", "N", "O",
      "P", "Q", "R", "S", "T", "U", "V", "W", "X", "Y", "Z", "[", "\\", "]", "^", "_",
      "grave", "a", "b", "c", "d", "e", "f", "g", "h", "i", "j", "k", "l", "m", "n", "o",
      "p", "q", "r", "s", "t", "u", "v", "w", "x", "y", "z", "{", "|", "}", "~">>

\* The Hangul syllables the program names, in code-point order (all above ASCII),
\* each written as its romanisation: gwang U+AD11, nam U+B0A8, dae U+B300,
\* do U+B3C4, byeol U+BCC4, buk U+BD81, se U+C138, si U+C2DC, yeok U+C5ED,
\* ja U+C790, jeon U+C804, jong U+C885, cheong U+CCAD, chung U+CDA9, chi U+CE58,
\* teuk U+D2B9; and dong U+B3D9, cheung U+CE35, ryu U+B958, bi U+BE44, yu U+C720.
WideTable ==
    <<"gwang", "nam", "dae", "do", "dong", "ryu", "byeol", "buk", "bi", "se", "si", "yeok",
      "yu", "ja", "jeon", "jong", "cheong", "chung", "cheung", "chi", "teuk">>

AsciiChars == {AsciiTable[i] : i \in 1..Len(AsciiTable)}
WideChars == {WideTable[i] : i \in 1..Len(WideTable)}

\* The code point order of a character (what str::cmp compares, byte-wise on UTF-8).
CharCode(c) ==
    IF c \in AsciiChars
    THEN 31 + (CHOOSE i \in 1..Len(AsciiTable) : AsciiTable[i] = c)
    ELSE 1000 + (CHOOSE i \in 1..Len(WideTable) : WideTable[i] = c)

UpperLetters == {AsciiTable[i] : i \in 34..59}
LowerLetters == {AsciiTable[i] : i \in 66..91}
DigitChars == {AsciiTable[i] : i \in 17..26}

is_ascii_alphabetic(c) == c \in UpperLetters \cup LowerLetters
is_ascii_digit(c) == c \in DigitChars
is_ascii_alphanumeric(c) == is_ascii_alphabetic(c) \/ is_ascii_digit(c)
is_whitespace(c) == c \in {" ", "\t", "\n", "\r", "\f"}

DigitVal(c) == CharCode(c) - 48
DigitChar(n) == AsciiTable[17 + n]

Min2(a, b) == IF a < b THEN a ELSE b
Max2(a, b) == IF a > b THEN a ELSE b

\* ------------------------------------------------------------------ text

Range(s) == {s[i] : i \in 1..Len(s)}

\* s[a..b] with 1-based inclusive positions; empty when b < a.
Slice(s, a, b) == IF b < a THEN <<>> ELSE SubSeq(s, a, b)

RECURSIVE FormatNat(_)
\* u32/i32 Display: decimal digits without leading zeros.
FormatNat(n) == IF n < 10 THEN <<DigitChar(n)>> ELSE Append(FormatNat(n \div 10), DigitChar(n % 10))

FormatInt(n) == IF n < 0 THEN <<"-">> \o FormatNat(-n) ELSE FormatNat(n)

RECURSIVE DigitsValue(_)
DigitsValue(s) == IF s = <<>> THEN 0 ELSE 10 * DigitsValue(Slice(s, 1, Len(s) - 1)) + DigitVal(s[Len(s)])

AllDigits(s) == s # <<>> /\ \A i \in 1..Len(s) : is_ascii_digit(s[i])

\* Option<T>
Some(v) == [some |-> TRUE, val |-> v]
None == [some |-> FALSE, val |-> 0]

\* str::parse::<u32>: an optional '+', then digits; None on anything else or on overflow.
ParseU32(s) ==
    LET body == IF s # <<>> /\ s[1] = "+" THEN Tail(s) ELSE s
    IN  IF AllDigits(body) /\ DigitsValue(body) <= U32Max THEN Some(DigitsValue(body)) ELSE None

\* str::trim
TrimStart(s) ==
    LET keep == {i \in 1..Len(s) : ~is_whitespace(s[i])}
    IN  IF keep = {} THEN <<>> ELSE Slice(s, CHOOSE i \in keep : \A j \in keep : i <= j, Len(s))
TrimEnd(s) ==
    LET keep == {i \in 1..Len(s) : ~is_whitespace(s[i])}
    IN  IF keep = {} THEN <<>> ELSE Slice(s, 1, CHOOSE i \in keep : \A j \in keep : i >= j)
Trim(s) == TrimEnd(TrimStart(s))

\* Whether pat occurs in s at position i.
StartsAt(s, pat, i) == i + Len(pat) - 1 <= Len(s) /\ Slice(s, i, i + Len(pat) - 1) = pat

\* The least element of a non-empty set of integers.
MinOf(S) == CHOOSE x \in S : \A y \in S : x <= y
\* The greatest element of a non-empty set of integers.
MaxOf(S) == CHOOSE x \in S : \A y \in S : x >= y

RECURSIVE ReplaceFrom(_, _, _, _)
\* str::replace from position i on: the text up to the next occurrence is copied,
\* the occurrence replaced, and the scan goes on behind it.
ReplaceFrom(s, from, to, i) ==
    LET hits == {p \in i..Len(s) : StartsAt(s, from, p)}
    IN  IF hits = {} THEN Slice(s, i, Len(s))
        ELSE Slice(s, i, MinOf(hits) - 1) \o to \o ReplaceFrom(s, from, to, MinOf(hits) + Len(from))

\* str::replace: every non-overlapping occurrence, left to right.
ReplaceAll(s, from, to) == ReplaceFrom(s, from, to, 1)

\* str::cmp: -1, 0, 1 (the first differing character decides, then the length).
StrCmp(a, b) ==
    LET diff == {i \in 1..Min2(Len(a), Len(b)) : a[i] # b[i]}
    IN  IF diff # {}
        THEN (IF CharCode(a[MinOf(diff)]) < CharCode(b[MinOf(diff)]) THEN -1 ELSE 1)
        ELSE IF Len(a) < Len(b) THEN -1
        ELSE IF Len(a) > Len(b) THEN 1
        ELSE 0

\* ------------------------------------------------------------------- xml

\* xml_escape_text: & first, then < and >.
xml_escape_text(s) ==
    ReplaceAll(ReplaceAll(ReplaceAll(s, <<"&">>, <<"&", "a", "m", "p", ";">>),
                          <<"<">>, <<"&", "l", "t", ";">>),
               <<">">>, <<"&", "g", "t", ";">>)

HexVal(c) ==
    IF is_ascii_digit(c) THEN DigitVal(c)
    ELSE IF c \in UpperLetters THEN CharCode(c) - 55
    ELSE CharCode(c) - 87
IsHexDigit(c) == is_ascii_digit(c) \/ c \in {"a", "b", "c", "d", "e", "f", "A", "B", "C", "D", "E", "F"}

RECURSIVE HexValue(_)
HexValue(s) == IF s = <<>> THEN 0 ELSE 16 * HexValue(Slice(s, 1, Len(s) - 1)) + HexVal(s[Len(s)])

\* char::from_u32: None for surrogates and beyond U+10FFFF. A valid code point
\* outside AsciiTable is a character the model has no name for, shown as "other".
CharFromCode(n) ==
    IF n >= 32 /\ n <= 126 THEN Some(AsciiTable[n - 31])
    ELSE IF (n >= 55296 /\ n <= 57343) \/ n > 1114111 THEN None
    ELSE Some("other")

\* Numeric references of more than 7 digits are outside the model (None).
decode_numeric_entity(entity) ==
    IF StartsAt(entity, <<"#", "x">>, 1) \/ StartsAt(entity, <<"#", "X">>, 1)
    THEN LET hex == Slice(entity, 3, Len(entity))
             body == IF hex # <<>> /\ hex[1] = "+" THEN Tail(hex) ELSE hex
         IN  IF body # <<>> /\ (\A i \in 1..Len(body) : IsHexDigit(body[i])) /\ Len(body) <= 7
             THEN CharFromCode(HexValue(body)) ELSE None
    ELSE IF StartsAt(entity, <<"#">>, 1)
    THEN LET dec == Slice(entity, 2, Len(entity))
             body == IF dec # <<>> /\ dec[1] = "+" THEN Tail(dec) ELSE dec
         IN  IF AllDigits(body) /\ Len(body) <= 7 THEN CharFromCode(DigitsValue(body)) ELSE None
    ELSE None

decode_single_entity(entity) ==
    IF entity = <<"l", "t">> THEN Some("<")
    ELSE IF entity = <<"g", "t">> THEN Some(">")
    ELSE IF entity = <<"q", "u", "o", "t">> THEN Some("\"")
    ELSE IF entity = <<"a", "p", "o", "s">> THEN Some("'")
    ELSE IF entity = <<"a", "m", "p">> THEN Some("&")
    ELSE decode_numeric_entity(entity)

\* The entity decode_xml_entities reads at position i (an '&'), with the position
\* after it: None when there is no ';' behind, nothing between, or no such entity.
EntityAt(s, i) ==
    LET semis == {j \in i..Len(s) : s[j] = ";"}
    IN  IF semis = {} \/ MinOf(semis) <= i + 1 THEN None
        ELSE LET decoded == decode_single_entity(Slice(s, i + 1, MinOf(semis) - 1))
             IN  IF decoded.some THEN Some([ch |-> decoded.val, next |-> MinOf(semis) + 1])
                 ELSE None

RECURSIVE DecodeFrom(_, _)

\* The loop of decode_xml_entities at the '&' of position i: e is the entity read there.
DecodeAmp(s, i, e) ==
    IF e.some THEN <<e.val.ch>> \o DecodeFrom(s, e.val.next)
    ELSE <<"&">> \o DecodeFrom(s, i + 1)

\* The loop of decode_xml_entities from position i: the characters before the
\* next '&' are pushed as they are.
DecodeFrom(s, i) ==
    LET amps == {j \in i..Len(s) : s[j] = "&"}
    IN  IF amps = {} THEN Slice(s, i, Len(s))
        ELSE Slice(s, i, MinOf(amps) - 1) \o DecodeAmp(s, MinOf(amps), EntityAt(s, MinOf(amps)))

\* Fault variant of decode_xml_entities: nothing is decoded.
DecodeNothing(s) == s

decode_xml_entities(s) == IF "&" \notin Range(s) THEN s ELSE DecodeFrom(s, 1)

needs_xml_space_preserve(s) ==
    \/ s # <<>> /\ s[1] = " "
    \/ s # <<>> /\ s[Len(s)] = " "
    \/ \E i \in 1..Len(s) : StartsAt(s, <<" ", " ">>, i)

\* ------------------------------------------------------ reference rewriter

is_cell_ref_start(ch) == ch = "$" \/ is_ascii_alphabetic(ch)

RECURSIVE ColValue(_)
\* The fold of name_to_col: out * 26 + letter, saturating (at the largest integer
\* TLC represents, 2^31 - 1, in place of u32::MAX).
ColValue(name) ==
    IF name = <<>> THEN 0
    ELSE LET upper == IF name[Len(name)] \in LowerLetters
                      THEN CharCode(name[Len(name)]) - 32 ELSE CharCode(name[Len(name)])
             prev == ColValue(Slice(name, 1, Len(name) - 1))
         IN  IF prev > (2147483647 - (upper - 64)) \div 26 THEN 2147483647
             ELSE prev * 26 + (upper - 64)

name_to_col(name) ==
    IF name = <<>> THEN None
    ELSE IF \E i \in 1..Len(name) : ~is_ascii_alphabetic(name[i]) THEN None
    ELSE Some(ColValue(name))

\* The first position >= i of chars that is not alphabetic (Len + 1 when none).
SkipAlphabetic(chars, i) ==
    LET stop == {j \in i..Len(chars) : ~is_ascii_alphabetic(chars[j])}
    IN  IF stop = {} THEN Len(chars) + 1 ELSE CHOOSE j \in stop : \A k \in stop : j <= k
SkipDigits(chars, i) ==
    LET stop == {j \in i..Len(chars) : ~is_ascii_digit(chars[j])}
    IN  IF stop = {} THEN Len(chars) + 1 ELSE CHOOSE j \in stop : \A k \in stop : j <= k

\* Fault variant of the boundary test: '_' and '.' are not looked at.
IsAlphanumericOnly(ch) == is_ascii_alphanumeric(ch)

IsIdentChar(ch) == is_ascii_alphanumeric(ch) \/ ch = "_" \/ ch = "."

\* Positions are 1-based; end_idx is the position after the match.
try_parse_and_rewrite_cell_ref(chars, start, resolver) ==
    LET col_lock == start <= Len(chars) /\ chars[start] = "$"
        col_start == IF col_lock THEN start + 1 ELSE start
        col_end == SkipAlphabetic(chars, col_start)
        col_text == Slice(chars, col_start, col_end - 1)
        row_lock == col_end <= Len(chars) /\ chars[col_end] = "$"
        row_start == IF row_lock THEN col_end + 1 ELSE col_end
        row_end == SkipDigits(chars, row_start)
        row_text == Slice(chars, row_start, row_end - 1)
        old_row == ParseU32(row_text)
    IN  IF col_end = col_start THEN None
        ELSE IF ~name_to_col(col_text).some THEN None
        ELSE IF row_end = row_start THEN None
        ELSE IF start > 1 /\ IsIdentChar(chars[start - 1]) THEN None
        ELSE IF row_end <= Len(chars) /\ IsIdentChar(chars[row_end]) THEN None
        ELSE IF ~old_row.some THEN None
        ELSE Some([end_idx |-> row_end,
                   replaced |-> (IF col_lock THEN <<"$">> ELSE <<>>) \o col_text
                                \o (IF row_lock THEN <<"$">> ELSE <<>>)
                                \o FormatNat(resolver[old_row.val])])

RECURSIVE RewriteFrom(_, _, _, _)

\* The scanning loop at an is_cell_ref_start character outside a string: m is what
\* try_parse_and_rewrite_cell_ref returned there.
RewriteRef(chars, i, in_string, resolver, m) ==
    IF m.some THEN m.val.replaced \o RewriteFrom(chars, m.val.end_idx, in_string, resolver)
    ELSE <<chars[i]>> \o RewriteFrom(chars, i + 1, in_string, resolver)

\* The scanning loop of rewrite_formula_rows from position i. The characters up to
\* the next quote (and, outside a string, the next is_cell_ref_start character)
\* are pushed as they are.
RewriteFrom(chars, i, in_string, resolver) ==
    LET stops == {j \in i..Len(chars) :
                     chars[j] = "\"" \/ (~in_string /\ is_cell_ref_start(chars[j]))}
    IN  IF stops = {} THEN Slice(chars, i, Len(chars))
        ELSE Slice(chars, i, MinOf(stops) - 1) \o
             (IF chars[MinOf(stops)] = "\""
              THEN IF in_string /\ MinOf(stops) + 1 <= Len(chars) /\ chars[MinOf(stops) + 1] = "\""
                   THEN <<"\"", "\"">> \o RewriteFrom(chars, MinOf(stops) + 2, in_string, resolver)
                   ELSE <<"\"">> \o RewriteFrom(chars, MinOf(stops) + 1, ~in_string, resolver)
              ELSE RewriteRef(chars, MinOf(stops), in_string, resolver,
                              try_parse_and_rewrite_cell_ref(chars, MinOf(stops), resolver)))

rewrite_formula_rows(f, resolver) == RewriteFrom(f, 1, FALSE, resolver)

\* ------------------------------------------------------- worksheet model

\* Cell.inner_xml, by shape:
\*   kind "none"  None
\*   kind "is"    <is><t>body</t></is>      body is escaped text
\*   kind "v"     <v>v</v>
\*   kind "f"     <f>body</f><v>v</v>       body is the escaped formula text
\* preserve is the xml:space="preserve" attribute of the <t> tag.
NoInner == [kind |-> "none", body |-> <<>>, v |-> <<>>, preserve |-> FALSE]
InlineStr(text, preserve) == [kind |-> "is", body |-> text, v |-> <<>>, preserve |-> preserve]
Value(v) == [kind |-> "v", body |-> <<>>, v |-> v, preserve |-> FALSE]
Formula(f, v) == [kind |-> "f", body |-> f, v |-> v, preserve |-> FALSE]

\* Cell: attrs r (its row part; the column part is the map key), s, t ("" when
\* absent), and inner_xml.
MkCell(r, style, t, inner) == [r |-> r, s |-> style, t |-> t, inner |-> inner]

\* Row: attrs r and the other attributes (one opaque token), and cells.
MkRow(r, attrs, cells) == [r |-> r, attrs |-> attrs, cells |-> cells]

EmptyMap == << >>
\* BTreeMap::insert (the new entry wins)
MapPut(m, k, v) == (k :> v) @@ m
\* A function built by a constructor, as an explicit table.
Table(f) == f @@ EmptyMap

\* Workbook.shared_strings
shared_strings == <<<<"ji", "yeok", "hwa", "pye", "jeok", "yong", "sun", "wi">>, <<"N">>, <<"S">>>>

\* The header marker text of find_master_header_row.
HeaderMarker == <<"ji", "yeok", "hwa", "pye", "jeok", "yong", "sun", "wi">>

\* extract_all_tag_text(inner, "t"): the concatenated <t> bodies, None when empty.
extract_all_t(inner) == IF inner.kind = "is" /\ inner.body # <<>> THEN Some(inner.body) ELSE None
\* extract_first_tag_text(inner, "v")
extract_first_v(inner) == IF inner.kind \in {"v", "f"} THEN Some(inner.v) ELSE None
\* extract_first_tag_text(inner, "f")
extract_first_f(inner) == IF inner.kind = "f" THEN Some(inner.body) ELSE None

\* str::parse::<usize> of a shared-string index.
ParseIndex(s) ==
    LET body == IF s # <<>> /\ s[1] = "+" THEN Tail(s) ELSE s
    IN  IF AllDigits(body) /\ Len(body) <= 7 THEN Some(DigitsValue(body)) ELSE None

\* Option::map(decode_xml_entities)
DecodedOpt(o) == IF o.some THEN Some(decode_xml_entities(o.val)) ELSE None
\* Option::unwrap_or_default on text
unwrap_or_default(o) == IF o.some THEN o.val ELSE <<>>

\* The branches of cell_display_value on the decoded <v> text.
DisplayOfValue(t, decoded) ==
    IF t = "s"
    THEN LET idx == ParseIndex(decoded)
         IN  IF idx.some /\ idx.val + 1 <= Len(shared_strings)
             THEN Some(shared_strings[idx.val + 1]) ELSE None
    ELSE IF t = "b"
    THEN Some(IF decoded = <<"1">> THEN <<"T", "R", "U", "E">> ELSE <<"F", "A", "L", "S", "E">>)
    ELSE Some(decoded)

cell_display_value(cell) ==
    IF cell.t = "inlineStr"
    THEN DecodedOpt(extract_all_t(cell.inner))
    ELSE DisplayOfValue(cell.t, decode_xml_entities(unwrap_or_default(extract_first_v(cell.inner))))

get_display_at(rows, col, row) ==
    IF row \notin DOMAIN rows THEN <<>>
    ELSE IF col \notin DOMAIN rows[row].cells THEN <<>>
    ELSE unwrap_or_default(cell_display_value(rows[row].cells[col]))

\* parse_i32_str: trim, blank or "-" is None, commas stripped, parsed as f64 and
\* rounded. Of the f64 syntax the model reads an optional sign and digits; the
\* saturating cast is not reached by numbers of at most 7 digits.
parse_i32_str(s) ==
    LET t == Trim(s)
        u == ReplaceAll(t, <<",">>, <<>>)
        neg == u # <<>> /\ u[1] = "-"
        body == IF u # <<>> /\ u[1] \in {"-", "+"} THEN Tail(u) ELSE u
    IN  IF t = <<>> \/ t = <<"-">> THEN None
        ELSE IF AllDigits(body) /\ Len(body) <= 7
        THEN Some(IF neg THEN 0 - DigitsValue(body) ELSE DigitsValue(body))
        ELSE None

get_i32_at(rows, col, row) == parse_i32_str(get_display_at(rows, col, row))

\* The row get_or_create_cell_mut works on: the row of the map, or a new one.
RowOrNew(rows, row) == IF row \in DOMAIN rows THEN rows[row] ELSE MkRow(row, "", EmptyMap)

\* The cell get_or_create_cell_mut returns: the cell of the row, or a new one (s="0").
CellOrNew(row_obj, col, row) ==
    IF col \in DOMAIN row_obj.cells THEN row_obj.cells[col] ELSE MkCell(row, "0", "", NoInner)

\* Fault variant of set_string_at on the cell: the t attribute is left as it was.
StringCellKeepsType(cell, value) ==
    [cell EXCEPT !.inner = InlineStr(xml_escape_text(value), needs_xml_space_preserve(value))]

\* What set_string_at does to the cell: t="inlineStr" and the escaped text as <is><t>.
StringCell(cell, value) ==
    [cell EXCEPT !.t = "inlineStr",
                 !.inner = InlineStr(xml_escape_text(value), needs_xml_space_preserve(value))]

\* What set_i32_at does to the cell: t removed, <v>value</v> or no inner_xml.
I32Cell(cell, value) ==
    [cell EXCEPT !.t = "", !.inner = IF value.some THEN Value(FormatInt(value.val)) ELSE NoInner]

\* ws.rows with the cells (a map col -> cell) written into the row row_obj at `row`.
PutCells(rows, row, row_obj, cells) ==
    MapPut(rows, row, [row_obj EXCEPT !.cells = cells @@ row_obj.cells])

set_string_at(rows, col, row, value) ==
    PutCells(rows, row, RowOrNew(rows, row),
             col :> StringCell(CellOrNew(RowOrNew(rows, row), col, row), value))

set_i32_at(rows, col, row, value) ==
    PutCells(rows, row, RowOrNew(rows, row),
             col :> I32Cell(CellOrNew(RowOrNew(rows, row), col, row), value))

rewrite_formula_rows_in_inner(inner, resolver) ==
    IF extract_first_f(inner).some
    THEN [inner EXCEPT !.body = xml_escape_text(rewrite_formula_rows(decode_xml_entities(inner.body), resolver))]
    ELSE inner

remap_row_numbers(row, new_row, resolver) ==
    [r |-> new_row,
     attrs |-> row.attrs,
     cells |-> Table([c \in DOMAIN row.cells |->
                  [row.cells[c] EXCEPT !.r = new_row,
                                       !.inner = IF row.cells[c].inner.kind = "none" THEN NoInner
                                                 ELSE rewrite_formula_rows_in_inner(row.cells[c].inner, resolver)]])]

RECURSIVE ColName(_)
ColName(col) == IF col = 0 THEN <<>> ELSE Append(ColName((col - 1) \div 26), AsciiTable[34 + ((col - 1) % 26)])
col_to_name(col) == IF col = 0 THEN <<"A">> ELSE ColName(col)

max_cell_col(rows) ==
    LET cols == UNION {DOMAIN rows[r].cells : r \in DOMAIN rows}
    IN  IF cols = {} THEN 1 ELSE CHOOSE c \in cols : \A d \in cols : c >= d
max_row_num(rows) ==
    IF DOMAIN rows = {} THEN 1 ELSE CHOOSE r \in DOMAIN rows : \A q \in DOMAIN rows : r >= q

\* --------------------------------------------------------- comparisons

same_trimmed(a, b) == Trim(a) = Trim(b)
canon_header(s) == ReplaceAll(Trim(s), <<" ">>, <<>>)
normalize_phone(s) == SelectSeq(s, is_ascii_digit)
same_phone(a, b) ==
    LET na == normalize_phone(a)
        nb == normalize_phone(b)
    IN  IF na # <<>> \/ nb # <<>> THEN na = nb ELSE same_trimmed(a, b)
same_self_yn(a, b) == canon_header(a) = canon_header(b)

KeyDropped(ch) == is_whitespace(ch) \/ ch \in {"(", ")", "[", "]", "{", "}", ",", "."}
KeyKept(ch) == ~KeyDropped(ch)

normalize_address_key(addr) ==
    LET s0 == Trim(addr)
        s1 == ReplaceAll(s0, <<"chung", "cheong", "nam", "do">>, <<"chung", "nam">>)
        s2 == ReplaceAll(s1, <<"chung", "cheong", "buk", "do">>, <<"chung", "buk">>)
        s3 == ReplaceAll(s2, <<"dae", "jeon", "gwang", "yeok", "si">>, <<"dae", "jeon">>)
        s4 == ReplaceAll(s3, <<"se", "jong", "teuk", "byeol", "ja", "chi", "si">>, <<"se", "jong">>)
    IN  SelectSeq(s4, KeyKept)

\* Result<T>
Ok(v) == [ok |-> TRUE, val |-> v]
Err == [ok |-> FALSE, val |-> 0]

\* usize -> u32 conversion of a row count; an error when it does not fit.
usize_to_u32(n) == IF n <= U32Max THEN Ok(n) ELSE Err
\* start + offset as a u32 row number; an error on overflow.
add_row_offset(start, offset) == IF start + offset <= U32Max THEN Ok(start + offset) ELSE Err
\* Variant of shift_row that leaves the row where it is.
shift_row_nowhere(row, increase, decrease) == Max2(1, row)
\* max(1, row + increase - decrease)
shift_row(row, increase, decrease) == Max2(1, row + increase - decrease)

\* ------------------------------------------------ reconciliation engine

\* The ascending sequence of a set of row numbers (BTreeMap iteration order).
SortedRows(S) ==
    [i \in 1..Cardinality(S) |-> CHOOSE x \in S : Cardinality({y \in S : y < x}) = i - 1]

\* The header scan limit of master_header_scan_rows (its default).
MasterHeaderScanRows == 200

find_master_header_row(rows) ==
    LET hits == {row \in 1..Min2(MasterHeaderScanRows, U32Max) :
                    Trim(get_display_at(rows, 1, row)) = HeaderMarker}
    IN  IF hits = {} THEN Err ELSE Ok(CHOOSE r \in hits : \A q \in hits : r <= q)

IdentityBlank(rows, row) ==
    /\ Trim(get_display_at(rows, 2, row)) = <<>>
    /\ Trim(get_display_at(rows, 3, row)) = <<>>
    /\ Trim(get_display_at(rows, 6, row)) = <<>>

collect_master_data_rows(rows, data_start_row) ==
    SortedRows({row \in DOMAIN rows : row >= data_start_row /\ ~IdentityBlank(rows, row)})

build_change_row_if_needed(old, src) ==
    LET name_changed == ~same_trimmed(old.name, src.name)
        brand_changed == ~same_trimmed(old.brand, src.brand)
        self_yn_changed == ~same_self_yn(old.self_yn, src.self_yn)
        address_changed == normalize_address_key(old.address) # normalize_address_key(src.address)
        phone_changed == ~same_phone(old.phone, src.phone)
        gas_changed == old.gasoline # src.gasoline
        premium_changed == old.premium # src.premium
        diesel_changed == old.diesel # src.diesel
        reasons == (IF gas_changed \/ premium_changed \/ diesel_changed THEN <<"price">> ELSE <<>>)
                   \o (IF name_changed THEN <<"name">> ELSE <<>>)
                   \o (IF brand_changed THEN <<"brand">> ELSE <<>>)
                   \o (IF self_yn_changed THEN <<"self_yn">> ELSE <<>>)
                   \o (IF address_changed THEN <<"address">> ELSE <<>>)
                   \o (IF phone_changed THEN <<"phone">> ELSE <<>>)
    IN  IF ~(name_changed \/ brand_changed \/ self_yn_changed \/ address_changed
             \/ phone_changed \/ gas_changed \/ premium_changed \/ diesel_changed)
        THEN None
        ELSE Some([reason |-> reasons, region |-> old.region, name |-> src.name,
                   address |-> src.address,
                   old_gasoline |-> old.gasoline, new_gasoline |-> src.gasoline,
                   old_premium |-> old.premium, new_premium |-> src.premium,
                   old_diesel |-> old.diesel, new_diesel |-> src.diesel])

\* The fields evaluate_master_row reads from the row: columns 2..9 and 11.
ExistingMasterRow(rows, old_row) ==
    [region |-> Trim(get_display_at(rows, 2, old_row)),
     name |-> Trim(get_display_at(rows, 3, old_row)),
     address |-> Trim(get_display_at(rows, 6, old_row)),
     brand |-> Trim(get_display_at(rows, 4, old_row)),
     self_yn |-> Trim(get_display_at(rows, 5, old_row)),
     phone |-> Trim(get_display_at(rows, 7, old_row)),
     gasoline |-> get_i32_at(rows, 8, old_row),
     premium |-> get_i32_at(rows, 9, old_row),
     diesel |-> get_i32_at(rows, 11, old_row)]

\* The decision of evaluate_master_row on the fields read and the key of the address.
MasterRowDecision(old, key, index) ==
    IF old.address = <<>>
    THEN [src |-> None, matched_key |-> None, change |-> None, deleted |-> None]
    ELSE IF key \notin DOMAIN index
    THEN [src |-> None, matched_key |-> None, change |-> None,
          deleted |-> Some([region |-> old.region, name |-> old.name, address |-> old.address,
                            gasoline |-> old.gasoline, premium |-> old.premium,
                            diesel |-> old.diesel])]
    ELSE [src |-> Some(index[key]), matched_key |-> Some(key),
          change |-> build_change_row_if_needed(old, index[key]), deleted |-> None]

DecideExisting(old, index) == MasterRowDecision(old, normalize_address_key(old.address), index)

evaluate_master_row(rows, old_row, index) == DecideExisting(ExistingMasterRow(rows, old_row), index)

\* What the loop of evaluate_master_rows collects from the decisions ds, one per
\* old row in order: deleted rows go to `deleted` and nowhere else.
CollectDecisions(ds) ==
    LET kept == SelectSeq(ds, LAMBDA e : ~e.d.deleted.some)
        gone == SelectSeq(ds, LAMBDA e : e.d.deleted.some)
        changed == SelectSeq(kept, LAMBDA e : e.d.change.some)
    IN  [kept_source_rows |-> [i \in 1..Len(kept) |-> [old_row |-> kept[i].old_row, src |-> kept[i].d.src]],
         matched_source_keys |-> {kept[i].d.matched_key.val :
                                     i \in {j \in 1..Len(kept) : kept[j].d.matched_key.some}},
         changes |-> [i \in 1..Len(changed) |-> changed[i].d.change.val],
         deleted |-> [i \in 1..Len(gone) |-> gone[i].d.deleted.val]]

evaluate_master_rows(rows, old_rows, index) ==
    CollectDecisions(Table([i \in 1..Len(old_rows) |->
        [old_row |-> old_rows[i], d |-> evaluate_master_row(rows, old_rows[i], index)]]))

\* Fault variant of the comparator: the address alone decides.
SourceCmpByAddress(a, b) == StrCmp(a.address, b.address)

\* The comparator of collect_new_sources: region, then name, then address.
SourceCmp(a, b) ==
    IF StrCmp(a.region, b.region) # 0 THEN StrCmp(a.region, b.region)
    ELSE IF StrCmp(a.name, b.name) # 0 THEN StrCmp(a.name, b.name)
    ELSE StrCmp(a.address, b.address)

\* sort_by over a set of records (no two records of an index tie: their addresses differ).
SortSources(S) ==
    [i \in 1..Cardinality(S) |->
        CHOOSE x \in S : Cardinality({y \in S : SourceCmp(y, x) < 0}) = i - 1]

\* Fault variant of collect_new_sources: the matched keys are not left out.
collect_all_sources(index, matched_source_keys) ==
    SortSources({index[k] : k \in DOMAIN index})

collect_new_sources(index, matched_source_keys) ==
    SortSources({index[k] : k \in DOMAIN index \ matched_source_keys})

rows_from_sources(new_sources) ==
    [i \in 1..Len(new_sources) |->
        [region |-> new_sources[i].region, name |-> new_sources[i].name,
         address |-> new_sources[i].address, gasoline |-> new_sources[i].gasoline,
         premium |-> new_sources[i].premium, diesel |-> new_sources[i].diesel]]

RECURSIVE BinarySearch(_, _, _, _)
\* slice::binary_search over the 0-based half-open range lo..hi of a sorted
\* sequence: Ok(index) when found, else Err(insertion index).
BinarySearch(sorted, x, lo, hi) ==
    IF lo >= hi THEN [found |-> FALSE, idx |-> lo]
    ELSE LET mid == lo + ((hi - lo) \div 2)
         IN  IF sorted[mid + 1] = x THEN [found |-> TRUE, idx |-> mid]
             ELSE IF sorted[mid + 1] < x THEN BinarySearch(sorted, x, mid + 1, hi)
             ELSE BinarySearch(sorted, x, lo, mid)

\* Fault variant of count_deleted_le: a deleted row does not count itself.
count_deleted_lt(sorted_deleted_rows, row) ==
    BinarySearch(sorted_deleted_rows, row, 0, Len(sorted_deleted_rows)).idx

count_deleted_le(sorted_deleted_rows, row) ==
    LET b == BinarySearch(sorted_deleted_rows, row, 0, Len(sorted_deleted_rows))
    IN  IF b.found THEN b.idx + 1 ELSE b.idx

\* RowMapper::map
RowMapperMap(m, old_ref_row) ==
    IF m.has_old_rows /\ old_ref_row >= m.data_start_row /\ old_ref_row <= m.old_end_row
    THEN LET n == count_deleted_le(m.deleted_rows, old_ref_row)
             deleted_le == IF n <= U32Max THEN n ELSE m.old_count_u32
         IN  Max2(0, old_ref_row - deleted_le)
    ELSE IF old_ref_row > m.old_end_row
    THEN shift_row(old_ref_row, m.increase, m.decrease)
    ELSE old_ref_row

\* RowMapper::shift
RowMapperShift(m, row) == shift_row(row, m.increase, m.decrease)

\* The closure |old_ref_row| row_mapper.map(old_ref_row), as a function of the u32 rows.
MapResolver(m) == Table([r \in 0..U32Max |-> RowMapperMap(m, r)])
\* The closures of place_kept_rows and place_new_source_rows: own row first.
OverrideResolver(m, own_row, new_row) ==
    Table([r \in 0..U32Max |-> IF r = own_row THEN new_row ELSE RowMapperMap(m, r)])

default_row(row_num) == MkRow(row_num, "", EmptyMap)

build_deleted_rows(old_rows, kept_source_rows) ==
    LET kept_old_rows == {kept_source_rows[i].old_row : i \in 1..Len(kept_source_rows)}
    IN  SortedRows({old_rows[i] : i \in 1..Len(old_rows)} \ kept_old_rows)

\* The row number build_rebased_non_data_rows inserts original row r under.
RebasedRow(r, data_start_row, row_mapper) ==
    IF r < data_start_row THEN r ELSE RowMapperShift(row_mapper, r)

\* The loop inserts in ascending order of r: of two rows with one target the later stays.
build_rebased_non_data_rows(original_rows, data_start_row, row_mapper) ==
    LET moved == {r \in DOMAIN original_rows :
                     ~(row_mapper.has_old_rows /\ r >= data_start_row /\ r <= row_mapper.old_end_row)}
    IN  Table([t \in {RebasedRow(r, data_start_row, row_mapper) : r \in moved} |->
            remap_row_numbers(
                original_rows[MaxOf({r \in moved : RebasedRow(r, data_start_row, row_mapper) = t})],
                t, MapResolver(row_mapper))])

\* The row place_kept_rows inserts for kept_source_rows[i] at new_row.
KeptRow(original_rows, old_row, new_row, row_mapper) ==
    remap_row_numbers(IF old_row \in DOMAIN original_rows THEN original_rows[old_row]
                      ELSE default_row(old_row),
                      new_row, OverrideResolver(row_mapper, old_row, new_row))

\* The loop over kept_source_rows: position i (1-based) goes to data_start_row + (i - 1);
\* an offset that does not fit returns the error.
place_kept_rows(new_rows_map, original_rows, kept_source_rows, data_start_row, row_mapper) ==
    LET n == Len(kept_source_rows)
    IN  IF \E i \in 1..n : ~add_row_offset(data_start_row, i - 1).ok THEN Err
        ELSE Ok([rows |-> Table([t \in {data_start_row + (i - 1) : i \in 1..n} |->
                              KeptRow(original_rows, kept_source_rows[t - data_start_row + 1].old_row,
                                      t, row_mapper)]) @@ new_rows_map,
                 kept_rows |-> [i \in 1..n |-> [new_row |-> add_row_offset(data_start_row, i - 1).val,
                                               src |-> kept_source_rows[i].src]]])

\* The loop over new_sources: position i (1-based) goes to
\* data_start_row + kept_count + (i - 1), a clone of the template row.
place_new_source_rows(new_rows_map, template_row, template_row_num, kept_count, new_sources, data_start_row, row_mapper) ==
    LET n == Len(new_sources)
        first == data_start_row + kept_count
    IN  IF \E i \in 1..n : ~add_row_offset(data_start_row, kept_count + (i - 1)).ok THEN Err
        ELSE Ok([rows |-> Table([t \in {first + (i - 1) : i \in 1..n} |->
                              remap_row_numbers(template_row, t,
                                  OverrideResolver(row_mapper, template_row_num, t))]) @@ new_rows_map,
                 new_rows_from_sources |-> [i \in 1..n |-> [new_row |-> first + (i - 1),
                                                           src |-> new_sources[i]]]])

\* The eight writes of write_master_row_from_source go to eight columns of row_obj.
WrittenCells(row_obj, row, src) ==
    (3 :> StringCell(CellOrNew(row_obj, 3, row), src.name))
    @@ (4 :> StringCell(CellOrNew(row_obj, 4, row), src.brand))
    @@ (5 :> StringCell(CellOrNew(row_obj, 5, row), src.self_yn))
    @@ (6 :> StringCell(CellOrNew(row_obj, 6, row), src.address))
    @@ (7 :> StringCell(CellOrNew(row_obj, 7, row), src.phone))
    @@ (8 :> I32Cell(CellOrNew(row_obj, 8, row), src.gasoline))
    @@ (9 :> I32Cell(CellOrNew(row_obj, 9, row), src.premium))
    @@ (11 :> I32Cell(CellOrNew(row_obj, 11, row), src.diesel))

write_master_row_from_source(rows, row, src) ==
    PutCells(rows, row, RowOrNew(rows, row), WrittenCells(RowOrNew(rows, row), row, src))

\* The region back-fill of write_source_rows_to_master on a written new row.
FillRegion(w, new_row, src) ==
    IF Trim(get_display_at(w, 2, new_row)) = <<>> /\ Trim(src.region) # <<>>
    THEN set_string_at(w, 2, new_row, src.region)
    ELSE w

\* The first loop of write_source_rows_to_master: the plans with a record are
\* written; a write touches only the row plan.new_row, and no two plans share a row.
WriteKeptRows(rows, kept_rows) ==
    Table([t \in DOMAIN rows \cup {kept_rows[i].new_row : i \in {j \in 1..Len(kept_rows) : kept_rows[j].src.some}} |->
        IF \E i \in 1..Len(kept_rows) : kept_rows[i].new_row = t /\ kept_rows[i].src.some
        THEN write_master_row_from_source(rows, t,
                 kept_rows[CHOOSE i \in 1..Len(kept_rows) : kept_rows[i].new_row = t].src.val)[t]
        ELSE rows[t]])

\* The second loop of write_source_rows_to_master, on the rows the first loop left.
WriteNewRows(rows, new_rows_from_sources) ==
    Table([t \in DOMAIN rows \cup {new_rows_from_sources[i].new_row : i \in 1..Len(new_rows_from_sources)} |->
        IF \E i \in 1..Len(new_rows_from_sources) : new_rows_from_sources[i].new_row = t
        THEN FillRegion(write_master_row_from_source(rows, t,
                            new_rows_from_sources[t - new_rows_from_sources[1].new_row + 1].src),
                        t, new_rows_from_sources[t - new_rows_from_sources[1].new_row + 1].src)[t]
        ELSE rows[t]])

write_source_rows_to_master(rows, kept_rows, new_rows_from_sources) ==
    WriteNewRows(WriteKeptRows(rows, kept_rows), new_rows_from_sources)

\* Worksheet::update_dimension on the <dimension> tag of the prefix: tag is "none"
\* (no tag: nothing to rewrite), "ok", or "bad" (its attributes do not parse).
update_dimension(rows, dim) ==
    IF dim.tag = "none" THEN Ok(dim)
    ELSE IF dim.tag = "bad" THEN Err
    ELSE Ok([tag |-> "ok", max_col |-> max_cell_col(rows), max_row |-> max_row_num(rows)])

NoMapper ==
    [has_old_rows |-> FALSE, data_start_row |-> 0, old_end_row |-> 0, deleted_rows |-> <<>>,
     old_count_u32 |-> 0, increase |-> 0, decrease |-> 0]

\* What rebuild_master_rows leaves and returns: ok, ws.rows, the dimension tag,
\* (filter_end_row, filter_end_col), and the RowMapper it built.
Rebuilt(ok, rows, dim, end_row, end_col, mapper) ==
    [ok |-> ok, rows |-> rows, dim |-> dim, filter_end_row |-> end_row,
     filter_end_col |-> end_col, row_mapper |-> mapper]

\* The tail of rebuild_master_rows: update_dimension, its error arm, the result.
RebuildFromDimension(original_rows, dim, row_mapper, written, filter_end_row, filter_end_col, new_dim) ==
    IF ~new_dim.ok THEN Rebuilt(FALSE, original_rows, dim, 0, 0, row_mapper)
    ELSE Rebuilt(TRUE, written, new_dim.val, filter_end_row, filter_end_col, row_mapper)

\* rebuild_master_rows from `ws.rows = new_rows_map` and the writes on: written is
\* ws.rows after write_source_rows_to_master.
RebuildFromWritten(original_rows, dim, header_row, data_start_row, final_count, row_mapper, written) ==
    LET filter_end_row == IF final_count = 0 THEN Ok(data_start_row)
                          ELSE IF data_start_row + Max2(0, final_count - 1) <= U32Max
                          THEN Ok(data_start_row + Max2(0, final_count - 1))
                          ELSE Err
        header_max == IF header_row \in DOMAIN written /\ DOMAIN written[header_row].cells # {}
                      THEN CHOOSE c \in DOMAIN written[header_row].cells :
                               \A d \in DOMAIN written[header_row].cells : c >= d
                      ELSE 1
    IN  IF ~filter_end_row.ok THEN Rebuilt(FALSE, written, dim, 0, 0, row_mapper)
        ELSE RebuildFromDimension(original_rows, dim, row_mapper, written, filter_end_row.val,
                                  Max2(header_max, max_cell_col(written)),
                                  update_dimension(written, dim))

\* The match on the closure's result: the error arm restores ws.rows.
RebuildFromPlaced(original_rows, dim, header_row, data_start_row, final_count, row_mapper, rebuilt) ==
    IF ~rebuilt.ok THEN Rebuilt(FALSE, original_rows, dim, 0, 0, row_mapper)
    ELSE RebuildFromWritten(original_rows, dim, header_row, data_start_row, final_count, row_mapper,
             write_source_rows_to_master(rebuilt.val.rows, rebuilt.val.kept_rows,
                                         rebuilt.val.new_rows_from_sources))

\* The end of the closure: Ok((new_rows_map, kept_rows, new_rows_from_sources)).
ClosureResult(kept_rows, placed) ==
    IF ~placed.ok THEN Err
    ELSE Ok([rows |-> placed.val.rows, kept_rows |-> kept_rows,
             new_rows_from_sources |-> placed.val.new_rows_from_sources])

\* The closure after place_kept_rows.
ClosureFromKept(kept, template_row, template_row_num, kept_count, new_sources, data_start_row, row_mapper) ==
    IF ~kept.ok THEN Err
    ELSE ClosureResult(kept.val.kept_rows,
             place_new_source_rows(kept.val.rows, template_row, template_row_num, kept_count,
                                   new_sources, data_start_row, row_mapper))

\* The closure `rebuilt` of rebuild_master_rows.
RebuiltClosure(original_rows, data_start_row, old_rows, kept_source_rows, new_sources, row_mapper) ==
    LET template_row_num == IF Len(old_rows) > 0 THEN old_rows[Len(old_rows)] ELSE data_start_row
        template_row == IF template_row_num \in DOMAIN original_rows
                        THEN original_rows[template_row_num] ELSE default_row(template_row_num)
    IN  ClosureFromKept(
            place_kept_rows(build_rebased_non_data_rows(original_rows, data_start_row, row_mapper),
                            original_rows, kept_source_rows, data_start_row, row_mapper),
            template_row, template_row_num, Len(kept_source_rows), new_sources, data_start_row,
            row_mapper)

\* rebuild_master_rows once the RowMapper is built.
RebuildWithMapper(original_rows, dim, header_row, data_start_row, old_rows, kept_source_rows, new_sources, row_mapper) ==
    RebuildFromPlaced(original_rows, dim, header_row, data_start_row,
                      Len(kept_source_rows) + Len(new_sources), row_mapper,
                      RebuiltClosure(original_rows, data_start_row, old_rows, kept_source_rows,
                                     new_sources, row_mapper))

\* rows is ws.rows on entry: mem::take leaves ws.rows empty, and the two
\* usize_to_u32 conversions return before anything puts the rows back.
rebuild_master_rows(rows, dim, header_row, data_start_row, old_rows, kept_source_rows, new_sources) ==
    LET old_count == Len(old_rows)
        old_end_row == IF old_count > 0 THEN old_rows[old_count] ELSE Max2(0, data_start_row - 1)
        final_count == Len(kept_source_rows) + Len(new_sources)
        old_count_u32 == usize_to_u32(old_count)
        final_count_u32 == usize_to_u32(final_count)
    IN  IF ~old_count_u32.ok \/ ~final_count_u32.ok
        THEN Rebuilt(FALSE, EmptyMap, dim, 0, 0, NoMapper)
        ELSE RebuildWithMapper(rows, dim, header_row, data_start_row, old_rows, kept_source_rows,
                 new_sources,
                 [has_old_rows |-> old_count > 0,
                  data_start_row |-> data_start_row,
                  old_end_row |-> old_end_row,
                  deleted_rows |-> build_deleted_rows(old_rows, kept_source_rows),
                  old_count_u32 |-> old_count_u32.val,
                  increase |-> Max2(0, final_count_u32.val - old_count_u32.val),
                  decrease |-> Max2(0, old_count_u32.val - final_count_u32.val)])

\* What update_master_sheet returns (ok, changes, added, deleted) and leaves in the
\* worksheet (rows, dim), with the band layout it worked on.
Outcome(ok, rows, dim, changes, added, deleted, header_row, old_rows, rb) ==
    [ok |-> ok, rows |-> rows, dim |-> dim, changes |-> changes, added |-> added,
     deleted |-> deleted, header_row |-> header_row, old_rows |-> old_rows,
     row_mapper |-> rb.row_mapper, filter_end_row |-> rb.filter_end_row,
     filter_end_col |-> rb.filter_end_col]

NoRebuild == Rebuilt(FALSE, EmptyMap, 0, 0, 0, NoMapper)

\* An error before the worksheet is touched.
Untouched(rows, dim) == Outcome(FALSE, rows, dim, <<>>, <<>>, <<>>, 0, <<>>, NoRebuild)

\* update_master_sheet from the result rb of rebuild_master_rows on.
UpdateFromRebuild(evaluation, added, header_row, old_rows, rb) ==
    IF ~rb.ok THEN Outcome(FALSE, rb.rows, rb.dim, <<>>, <<>>, <<>>, header_row, old_rows, rb)
    ELSE Outcome(TRUE, rb.rows, rb.dim, evaluation.changes, added, evaluation.deleted,
                 header_row, old_rows, rb)

UpdateFromNewSources(rows, dim, header_row, old_rows, evaluation, new_sources) ==
    UpdateFromRebuild(evaluation, rows_from_sources(new_sources), header_row, old_rows,
                      rebuild_master_rows(rows, dim, header_row, header_row + 1, old_rows,
                                          evaluation.kept_source_rows, new_sources))

UpdateFromEvaluation(rows, dim, index, header_row, old_rows, evaluation) ==
    UpdateFromNewSources(rows, dim, header_row, old_rows, evaluation,
                         collect_new_sources(index, evaluation.matched_source_keys))

UpdateFromOldRows(rows, dim, index, header_row, old_rows) ==
    UpdateFromEvaluation(rows, dim, index, header_row, old_rows,
                         evaluate_master_rows(rows, old_rows, index))

UpdateFromHeader(rows, dim, index, header_row) ==
    IF ~header_row.ok THEN Untouched(rows, dim)
    ELSE UpdateFromOldRows(rows, dim, index, header_row.val,
                           collect_master_data_rows(rows, header_row.val + 1))

update_master_sheet(sheet_present, rows, dim, index) ==
    IF ~sheet_present THEN Untouched(rows, dim)
    ELSE UpdateFromHeader(rows, dim, index, find_master_header_row(rows))

\* ------------------------------------------------------- defined names

\* Workbook.xml_text is modelled by its <definedName> elements in order, each
\* [name, content]: the name attribute and the text of the element.
FilterDatabaseName == "_xlnm._FilterDatabase"
MasterSheetName == <<"yu", "ryu", "bi">>

\* str::contains
Contains(s, pat) == \E p \in 1..Len(s) : StartsAt(s, pat, p)

\* find_filter_database_defined_name_content_range: the first element named
\* _xlnm._FilterDatabase whose content names the sheet, bare or quoted (0: None).
find_filter_database_defined_name(names, sheet_name) ==
    IF \A i \in 1..Len(names) :
           ~(/\ names[i].name = FilterDatabaseName
             /\ (Contains(names[i].content, sheet_name \o <<"!">>)
                    \/ Contains(names[i].content, <<"'">> \o sheet_name \o <<"'", "!">>)))
    THEN 0
    ELSE MinOf({i \in 1..Len(names) :
                   /\ names[i].name = FilterDatabaseName
                   /\ (Contains(names[i].content, sheet_name \o <<"!">>)
                          \/ Contains(names[i].content, <<"'">> \o sheet_name \o <<"'", "!">>))})

\* The content update_filter_database_defined_name writes.
FilterRange(data_start_row, data_end_row, data_end_col) ==
    MasterSheetName \o <<"!", "$", "A", "$">> \o FormatNat(data_start_row) \o <<":", "$">>
        \o col_to_name(Max2(data_end_col, 1)) \o <<"$">> \o FormatNat(data_end_row)

update_filter_database_defined_name(names, data_start_row, data_end_row, data_end_col) ==
    IF find_filter_database_defined_name(names, MasterSheetName) = 0 THEN names
    ELSE [names EXCEPT ![find_filter_database_defined_name(names, MasterSheetName)].content =
              FilterRange(data_start_row, data_end_row, data_end_col)]

\* The tail of update_master_sheet: on success the defined name is rewritten
\* when the three numbers are positive.
WorkbookAfter(names, outcome) ==
    IF outcome.ok /\ outcome.header_row + 1 > 0 /\ outcome.filter_end_row > 0 /\ outcome.filter_end_col > 0
    THEN update_filter_database_defined_name(names, outcome.header_row + 1, outcome.filter_end_row,
                                             outcome.filter_end_col)
    ELSE names

\* ------------------------------------------------- the inputs of the model

\* SourceRecord
Rec(region, name, brand, self_yn, address, phone, gasoline, premium, diesel) ==
    [region |-> region, name |-> name, brand |-> brand, self_yn |-> self_yn,
     address |-> address, phone |-> phone, gasoline |-> gasoline, premium |-> premium,
     diesel |-> diesel]

RecA == Rec(<<"N">>, <<"A", "&">>, <<"b">>, <<"Y">>, <<"x", " ", "1">>, <<"1", "-", "2">>,
            Some(5), None, Some(6))
RecB == Rec(<<>>, <<"B">>, <<>>, <<"N">>, <<"y">>, <<>>, Some(7), Some(8), None)
RecC == Rec(<<"M">>, <<"C">>, <<"c">>, <<"Y">>, <<"chung", "cheong", "nam", "do", "z">>, <<"3">>,
            None, None, Some(9))

\* An index as build_source_index_with_report builds it: keyed by the normalized address.
IndexOf(recs) ==
    [k \in {normalize_address_key(r.address) : r \in recs} |->
        CHOOSE r \in recs : normalize_address_key(r.address) = k]

\* An index with more records than a u32 counts.
BigIndex ==
    IndexOf({Rec(<<>>, <<"G">>, <<>>, <<>>, <<"g">> \o FormatNat(n), <<>>, None, None, None) :
             n \in 0..U32Max})

TextCell(r, text) == MkCell(r, "1", "inlineStr", InlineStr(xml_escape_text(text), FALSE))
SharedCell(r, idx) == MkCell(r, "1", "s", Value(FormatNat(idx)))
NumCell(r, n) == MkCell(r, "2", "", Value(FormatInt(n)))
FormulaCell(r, f) == MkCell(r, "3", "", Formula(xml_escape_text(f), <<"0">>))

\* The cells of a set of (col, cell) pairs.
CellsOf(pairs) == [c \in {p[1] : p \in pairs} |-> (CHOOSE p \in pairs : p[1] = c)[2]]

\* A data row: its own formula in column 12 refers to its own row and to data_start_row.
OwnFormula(r, dsr) == <<"=", "H">> \o FormatNat(r) \o <<"+", "$", "H", "$">> \o FormatNat(dsr)

\* The kinds of row the generated bands are filled with.
SlotKinds == {"absent", "blank", "A", "Aold", "B", "noaddr"}

SlotRow(kind, r, dsr) ==
    IF kind = "blank"
    THEN MkRow(r, "ht", CellsOf({<<10, TextCell(r, <<"m">>)>>, <<12, FormulaCell(r, OwnFormula(r, dsr))>>}))
    ELSE IF kind = "A"
    THEN MkRow(r, "", CellsOf({<<2, SharedCell(r, 1)>>, <<3, TextCell(r, <<"A", "&">>)>>,
                               <<4, TextCell(r, <<"b">>)>>, <<5, TextCell(r, <<"Y">>)>>,
                               <<6, TextCell(r, <<"x", " ", "1">>)>>, <<7, TextCell(r, <<"1", "-", "2">>)>>,
                               <<8, NumCell(r, 5)>>, <<11, NumCell(r, 6)>>,
                               <<12, FormulaCell(r, OwnFormula(r, dsr))>>}))
    ELSE IF kind = "Aold"
    THEN MkRow(r, "", CellsOf({<<2, SharedCell(r, 2)>>, <<3, TextCell(r, <<" ", "A", "&">>)>>,
                               <<4, TextCell(r, <<"b">>)>>, <<5, TextCell(r, <<"Y", " ">>)>>,
                               <<6, TextCell(r, <<"(", "x", ")", ",", "1">>)>>, <<7, TextCell(r, <<"1", "2">>)>>,
                               <<8, NumCell(r, 4)>>, <<10, TextCell(r, <<"m">>)>>, <<11, NumCell(r, 6)>>,
                               <<12, FormulaCell(r, OwnFormula(r, dsr))>>}))
    ELSE IF kind = "Asame"
    THEN MkRow(r, "", CellsOf({<<2, SharedCell(r, 1)>>, <<3, TextCell(r, <<" ", "A", "&">>)>>,
                               <<4, TextCell(r, <<"b">>)>>, <<5, TextCell(r, <<"Y", " ">>)>>,
                               <<6, TextCell(r, <<"(", "x", ")", ",", "1">>)>>, <<7, TextCell(r, <<"1", "2">>)>>,
                               <<8, NumCell(r, 5)>>, <<11, NumCell(r, 6)>>,
                               <<12, FormulaCell(r, OwnFormula(r, dsr))>>}))
    ELSE IF kind = "B"
    THEN MkRow(r, "", CellsOf({<<3, TextCell(r, <<"B">>)>>, <<5, TextCell(r, <<"N">>)>>,
                               <<6, TextCell(r, <<"y">>)>>, <<8, NumCell(r, 7)>>, <<9, NumCell(r, 8)>>}))
    ELSE MkRow(r, "", CellsOf({<<2, SharedCell(r, 1)>>, <<3, TextCell(r, <<"Q">>)>>,
                               <<8, NumCell(r, 3)>>, <<12, FormulaCell(r, OwnFormula(r, dsr))>>}))

\* The header row: the marker in column 1 (shared string 0).
HeaderRow(h) == MkRow(h, "", CellsOf({<<1, SharedCell(h, 0)>>, <<8, TextCell(h, <<"g">>)>>}))

\* A row above the header whose formulas refer to each band slot.
TitleRow(h, n) ==
    MkRow(1, "", [c \in {12 + k : k \in 1..n} |-> FormulaCell(1, <<"=", "F">> \o FormatNat(h + (c - 12)))])

\* A row below the band with blank identity columns and a formula over the band.
FooterRow(r, dsr, last) ==
    MkRow(r, "", CellsOf({<<8, FormulaCell(r, <<"=", "S", "U", "M", "(", "H">> \o FormatNat(dsr)
                                              \o <<":", "H">> \o FormatNat(last) \o <<")">>)>>}))

\* The sheet with header row h, the band slots filled as kinds says (a sequence of
\* kinds), a title row above when h > 1 and a footer row below when it fits.
SheetOf(h, kinds) ==
    LET n == Len(kinds)
        band == {h + k : k \in {j \in 1..n : kinds[j] # "absent"}}
        foot == IF h + n + 1 <= U32Max /\ n > 0 THEN {h + n + 1} ELSE {}
        top == IF h > 1 THEN {1} ELSE {}
    IN  [r \in top \cup {h} \cup band \cup foot |->
            IF r = h THEN HeaderRow(h)
            ELSE IF r \in band THEN SlotRow(kinds[r - h], r, h + 1)
            ELSE IF r \in foot THEN FooterRow(r, h + 1, h + n)
            ELSE TitleRow(h, n)]

\* The header rows of the generated sheets; the last leaves one slot before U32Max.
HeaderRows == {2, U32Max - 1}

SlotSeqs(h) == [1..Min2(MaxBand, U32Max - h) -> SlotKinds]

\* The sheet of the deletion-compaction example: header at row 9, band 10..13.
ExampleSheet == SheetOf(9, <<"A", "B", "noaddr", "Aold">>)

\* A sheet without the header marker.
NoHeaderSheet == [r \in {1} |-> TitleRow(2, 1)]

\* The indexes of the generated runs: every set of the three records.
Indexes == {IndexOf(S) : S \in SUBSET {RecA, RecB, RecC}}

DimTag(t) == [tag |-> t, max_col |-> 1, max_row |-> 1]

\* Longer bands: a blank row and a missing row between data rows, a deletion
\* above kept rows, two rows of one address, a row that differs from its
\* record only in what the comparisons ignore.
ScenarioSheets ==
    {ExampleSheet,
     SheetOf(2, <<"A", "blank", "B">>),
     SheetOf(2, <<"B", "absent", "Aold", "noaddr">>),
     SheetOf(2, <<"noaddr", "B", "A">>),
     SheetOf(3, <<"blank", "A", "absent", "B">>),
     SheetOf(2, <<"A", "Aold", "blank">>),
     SheetOf(2, <<"Asame", "B">>)}

\* The generated runs: the sheet is present, its dimension tag parses.
GeneratedInputs ==
    {[sheet |-> TRUE, rows |-> rows, dim |-> DimTag("ok"), index |-> ix] :
        rows \in ScenarioSheets \cup UNION {{SheetOf(h, kinds) : kinds \in SlotSeqs(h)} : h \in HeaderRows},
        ix \in Indexes}

\* The runs around the failure paths, on a few sheets: a missing sheet, a
\* dimension tag that does not parse or is absent, an index beyond u32.
EdgeInputs ==
    {[sheet |-> p, rows |-> rows, dim |-> DimTag(t), index |-> ix] :
        p \in BOOLEAN,
        rows \in {ExampleSheet, NoHeaderSheet, SheetOf(2, <<"A", "blank", "B">>),
                  SheetOf(U32Max - 1, <<"B">>)},
        t \in {"ok", "bad", "none"},
        ix \in {IndexOf({}), IndexOf({RecA}), IndexOf({RecA, RecC}), BigIndex}}

NoOutcome == Untouched(EmptyMap, 0)

\* The defined names of the workbook: a print area of the master sheet, the
\* filter range of another sheet, and the filter range of the master sheet.
DefinedNames ==
    <<[name |-> "_xlnm.Print_Area",
       content |-> MasterSheetName \o <<"!", "$", "A", "$", "1", ":", "$", "L", "$", "9">>],
      [name |-> FilterDatabaseName,
       content |-> <<"L", "o", "g", "!", "$", "A", "$", "3", ":", "$", "F", "$", "4">>],
      [name |-> FilterDatabaseName,
       content |-> <<"'">> \o MasterSheetName \o <<"'", "!", "$", "A", "$", "3", ":", "$", "L", "$", "3">>]>>

\* The conditional-formatting ranges of a master sheet: one over the price
\* column of its band (when it has a band), one over the header row.
BandOf(rows) ==
    IF find_master_header_row(rows).ok
    THEN collect_master_data_rows(rows, find_master_header_row(rows).val + 1)
    ELSE <<>>
BandFormats(rows) ==
    (IF BandOf(rows) = <<>> THEN <<>>
     ELSE <<[first_col |-> 8, first_row |-> BandOf(rows)[1],
             last_col |-> 8, last_row |-> BandOf(rows)[Len(BandOf(rows))]]>>)
    \o <<[first_col |-> 1, first_row |-> 1, last_col |-> 12, last_row |-> 1]>>

Init ==
    /\ pc = "ready"
    /\ \E input \in GeneratedInputs \cup EdgeInputs :
           /\ has_sheet = input.sheet
           /\ ws_rows = input.rows
           /\ ws_dim = input.dim
           /\ ws_suffix = BandFormats(input.rows)
           /\ source_index = input.index
    /\ workbook_xml = DefinedNames
    /\ rows_before = EmptyMap
    /\ result = NoOutcome
    /\ first_result = NoOutcome
    /\ formula = <<>>
    /\ resolver_add = 0
    /\ rewritten = <<>>
    /\ OthersIdle("reconciliation")

\* One call of update_master_sheet on the workbook, with the index of this run.
Reconcile ==
    /\ pc = "ready"
    /\ result' = update_master_sheet(has_sheet, ws_rows, ws_dim, source_index)
    /\ first_result' = result'
    /\ ws_rows' = result'.rows
    /\ ws_dim' = result'.dim
    /\ rows_before' = ws_rows
    /\ workbook_xml' = WorkbookAfter(workbook_xml, result')
    /\ pc' = "ran1"
    /\ UNCHANGED <<has_sheet, ws_suffix, source_index, formula, resolver_add, rewritten>>
    /\ OthersUnchanged("reconciliation")

\* A second call with the unchanged index on the worksheet the first call produced.
ReconcileAgain ==
    /\ pc = "ran1"
    /\ result.ok
    /\ result' = update_master_sheet(has_sheet, ws_rows, ws_dim, source_index)
    /\ ws_rows' = result'.rows
    /\ ws_dim' = result'.dim
    /\ rows_before' = ws_rows
    /\ workbook_xml' = WorkbookAfter(workbook_xml, result')
    /\ pc' = "ran2"
    /\ UNCHANGED <<has_sheet, ws_suffix, source_index, first_result, formula, resolver_add, rewritten>>
    /\ OthersUnchanged("reconciliation")

Next == Reconcile \/ ReconcileAgain

Spec == Init /\ [][Next]_vars

\* ------------------------------------------- the rewriter on its own

\* The characters of the generated formulas: a column letter, digits, the lock,
\* the quote, the characters that follow a function or a sheet name, and '_'.
FormulaChars == {"A", "1", "0", "$", "\"", "(", "!", "_"}

SumFormula ==
    <<"=", "S", "U", "M", "(", "A", "1", ":", "A", "1", "0", ")", "+", "\"", "A", "1", "\"">>
QuotedFormula ==
    <<"=", "\"", "a", "\"", "\"", "B", "2", "\"", "&", "$", "b", "$", "2", "&", "\"", "C", "3">>
LogFormula == <<"=", "L", "O", "G", "1", "0", "(", "A", "1", ")">>
SheetFormula == <<"=", "S", "h", "1", "!", "A", "1", "+", "x", ".", "B", "2">>

\* Formulas longer than MaxFormulaLen: the ones the documentation discusses.
ExampleFormulas == {SumFormula, QuotedFormula, LogFormula, SheetFormula}

Formulas == ExampleFormulas \cup UNION {[1..n -> FormulaChars] : n \in 0..MaxFormulaLen}

\* The resolvers of the rewriter runs: r |-> r + add, within u32.
ResolverAdds == {0, 1, 5}
ShiftResolver(add) == [r \in 0..U32Max |-> (r + add) % (U32Max + 1)]

InitRewrite ==
    /\ pc = "rw_ready"
    /\ formula \in Formulas
    /\ resolver_add \in ResolverAdds
    /\ rewritten = <<>>
    /\ has_sheet = FALSE
    /\ ws_rows = EmptyMap
    /\ ws_dim = DimTag("none")
    /\ ws_suffix = <<>>
    /\ workbook_xml = <<>>
    /\ source_index = EmptyMap
    /\ rows_before = EmptyMap
    /\ result = NoOutcome
    /\ first_result = NoOutcome
    /\ OthersIdle("rewriter")

\* One call of rewrite_formula_rows.
Rewrite ==
    /\ pc = "rw_ready"
    /\ rewritten' = rewrite_formula_rows(formula, ShiftResolver(resolver_add))
    /\ pc' = "rw_done"
    /\ UNCHANGED <<has_sheet, ws_rows, ws_dim, ws_suffix, workbook_xml, source_index,
                   rows_before, result, first_result, formula, resolver_add>>
    /\ OthersUnchanged("rewriter")

NextRewrite == Rewrite

SpecRewrite == InitRewrite /\ [][NextRewrite]_vars

\* The reconciliation and rewriter variables while another part runs.
core_vars == <<has_sheet, ws_rows, ws_dim, ws_suffix, workbook_xml, source_index, rows_before, result,
               first_result, formula, resolver_add, rewritten>>
CoreIdle ==
    /\ has_sheet = FALSE
    /\ ws_rows = EmptyMap
    /\ ws_dim = DimTag("none")
    /\ ws_suffix = <<>>
    /\ workbook_xml = <<>>
    /\ source_index = EmptyMap
    /\ rows_before = EmptyMap
    /\ result = NoOutcome
    /\ first_result = NoOutcome
    /\ formula = <<>>
    /\ resolver_add = 0
    /\ rewritten = <<>>

\* ------------------------------------------- the source index builder

MAX_CONFLICT_SAMPLES == 10

\* str::len: the length in UTF-8 bytes (one per ASCII character, three per
\* Hangul syllable).
str_len(s) == Len(s) + 2 * Cardinality({i \in 1..Len(s) : s[i] \in WideChars})

\* source_priority: (price_count, text_field_count, text_len).
source_priority(rec) ==
    <<Cardinality({f \in {"gasoline", "premium", "diesel"} : rec[f].some}),
      Cardinality({f \in {"region", "name", "brand", "self_yn", "address", "phone"} :
                       Trim(rec[f]) # <<>>}),
      str_len(rec.region) + str_len(rec.name) + str_len(rec.brand)
          + str_len(rec.self_yn) + str_len(rec.address) + str_len(rec.phone)>>

\* The order of (usize, usize, usize): a > b.
PriorityGreater(a, b) ==
    \/ a[1] > b[1]
    \/ a[1] = b[1] /\ a[2] > b[2]
    \/ a[1] = b[1] /\ a[2] = b[2] /\ a[3] > b[3]

\* The replacement test of the occupied arm; ReplacesOnlyGreater is the test
\* without the arm for equal scores.
ReplacesOnlyGreater(score, file_order, prev_score, prev_order) ==
    PriorityGreater(score, prev_score)
Replaces(score, file_order, prev_score, prev_order) ==
    PriorityGreater(score, prev_score) \/ (score = prev_score /\ file_order >= prev_order)

EmptyReport ==
    [duplicate_address_conflicts |-> 0, overwritten_conflicts |-> 0,
     sample_conflict_addresses |-> <<>>, sample_conflicts |-> <<>>]

\* The sample of a conflict; a source label is modelled by the position of the
\* file in paths.
ConflictSample(rec, prev_order, file_order, selected) ==
    [address |-> rec.address, previous_source |-> prev_order,
     incoming_source |-> file_order, selected_source |-> selected]

\* The occupied arm up to the sample: the conflict is counted, and sampled when
\* fewer than MAX_CONFLICT_SAMPLES are held and the key was not sampled before.
ReportConflict(ix, key, rec, score, prev) ==
    IF Len(ix.report.sample_conflict_addresses) < MAX_CONFLICT_SAMPLES /\ key \notin ix.sampled_keys
    THEN [ix EXCEPT !.report.duplicate_address_conflicts = @ + 1,
                    !.sampled_keys = @ \cup {key},
                    !.report.sample_conflict_addresses = Append(@, rec.address),
                    !.report.sample_conflicts =
                        Append(@, ConflictSample(rec, prev.order, ix.file_order,
                                   IF Replaces(score, ix.file_order, prev.score, prev.order)
                                   THEN ix.file_order ELSE prev.order))]
    ELSE [ix EXCEPT !.report.duplicate_address_conflicts = @ + 1]

\* The occupied arm after the sample: the entry is overwritten when the test says so.
OverwriteEntry(ix, key, rec, score, prev) ==
    IF Replaces(score, ix.file_order, prev.score, prev.order)
    THEN [ix EXCEPT !.report.overwritten_conflicts = @ + 1,
                    !.map = MapPut(@, key, [rec |-> rec, score |-> score, order |-> ix.file_order])]
    ELSE ix

\* The body of the loop over the records of a file.
IndexEntry(ix, key, rec, score) ==
    IF key \notin DOMAIN ix.map
    THEN [ix EXCEPT !.map = MapPut(@, key, [rec |-> rec, score |-> score, order |-> ix.file_order])]
    ELSE OverwriteEntry(ReportConflict(ix, key, rec, score, ix.map[key]), key, rec, score, ix.map[key])

\* The records of the index runs. The first five share the key "x": K1 and K2
\* have equal priority (1, 2, 2); K3 has no price but more text (0, 1, 5); K4
\* has more fields (0, 3, 3) and K5 more text (0, 2, 5); K6 has a
\* whitespace-only name (0, 1, 3). K7 has another key.
K1 == Rec(<<>>, <<"A">>, <<>>, <<>>, <<"x">>, <<>>, Some(1), None, None)
K2 == Rec(<<>>, <<"B">>, <<>>, <<>>, <<"x">>, <<>>, Some(2), None, None)
K3 == Rec(<<>>, <<>>, <<>>, <<>>, <<"(", " ", "x", " ", ")">>, <<>>, None, None, None)
K4 == Rec(<<>>, <<"A">>, <<"b">>, <<>>, <<"x">>, <<>>, None, None, None)
K5 == Rec(<<>>, <<"A", "A", "A", "A">>, <<>>, <<>>, <<"x">>, <<>>, None, None, None)
K6 == Rec(<<>>, <<" ">>, <<>>, <<>>, <<"x", ".">>, <<>>, None, None, None)
K7 == Rec(<<>>, <<"C">>, <<>>, <<>>, <<"y">>, <<>>, None, None, Some(3))

\* What read_source_file returns for the files of the index runs: the records
\* of the file, or an error.
Unreadable == [ok |-> FALSE, val |-> <<>>]
SourceFiles ==
    {Ok(<<>>), Unreadable}
    \cup {Ok(<<k>>) : k \in {K1, K2, K3, K4, K5, K6, K7}}
    \cup {Ok(<<K1, K2>>), Ok(<<K2, K1>>), Ok(<<K3, K7>>), Ok(<<K5, K4>>), Ok(<<K4, K5>>),
          Ok(<<K6, K3>>), Ok(<<K1, K4>>)}

\* The number of source files of a run.
MaxFiles == 2

NewIndexer(paths) ==
    [paths |-> paths, file_order |-> 0, recs |-> <<>>, map |-> EmptyMap,
     sampled_keys |-> {}, report |-> EmptyReport, status |-> "open", index |-> EmptyMap]

InitIndex ==
    /\ pc = "index"
    /\ \E n \in 0..MaxFiles : \E paths \in [1..n -> SourceFiles] : indexer = NewIndexer(paths)
    /\ CoreIdle
    /\ OthersIdle("indexer")

\* read_source_file on the next path: its records, or the error that ends the build.
ReadSourceFile ==
    /\ pc = "index"
    /\ indexer.status = "open"
    /\ indexer.file_order < Len(indexer.paths)
    /\ indexer' = IF indexer.paths[indexer.file_order + 1].ok
                  THEN [indexer EXCEPT !.recs = indexer.paths[indexer.file_order + 1].val,
                                       !.status = "records"]
                  ELSE [indexer EXCEPT !.status = "failed"]
    /\ UNCHANGED <<pc, core_vars>>
    /\ OthersUnchanged("indexer")

\* One pass of the loop over the records of the file.
IndexRecord ==
    /\ pc = "index"
    /\ indexer.status = "records"
    /\ indexer.recs # <<>>
    /\ indexer' = [IndexEntry(indexer, normalize_address_key(Head(indexer.recs).address),
                              Head(indexer.recs), source_priority(Head(indexer.recs)))
                      EXCEPT !.recs = Tail(@)]
    /\ UNCHANGED <<pc, core_vars>>
    /\ OthersUnchanged("indexer")

\* The records of the file are exhausted: the loop over paths goes on.
NextSourceFile ==
    /\ pc = "index"
    /\ indexer.status = "records"
    /\ indexer.recs = <<>>
    /\ indexer' = [indexer EXCEPT !.file_order = @ + 1, !.status = "open"]
    /\ UNCHANGED <<pc, core_vars>>
    /\ OthersUnchanged("indexer")

\* The paths are exhausted: the entries are collected into the index.
CollectIndex ==
    /\ pc = "index"
    /\ indexer.status = "open"
    /\ indexer.file_order = Len(indexer.paths)
    /\ indexer' = [indexer EXCEPT !.status = "done",
                                  !.index = [k \in DOMAIN indexer.map |-> indexer.map[k].rec]]
    /\ UNCHANGED <<pc, core_vars>>
    /\ OthersUnchanged("indexer")

NextIndex == ReadSourceFile \/ IndexRecord \/ NextSourceFile \/ CollectIndex

SpecIndex == InitIndex /\ [][NextIndex]_vars

\* ------------------------------------------- the address key on its own

\* The characters of the generated addresses: whitespace, punctuation and the
\* syllables of one administrative name.
AddressChars == {" ", ",", "chung", "cheong", "nam", "do"}
\* The length up to which every address over AddressChars is normalized.
MaxAddressLen == 4

\* The addresses of the documented example.
LongExample ==
    <<"chung", "cheong", "nam", "do", " ", "1", "dong", ",", " ", "(", "2", "cheung", ")">>
ShortExample == <<"chung", "nam", "1", "dong", "2", "cheung">>
ExampleAddresses ==
    {LongExample, ShortExample,
     <<"dae", "jeon", "gwang", "yeok", "si", " ", "1">>, <<"dae", "jeon", "[", "1", "]">>,
     <<"se", "jong", "teuk", "byeol", "ja", "chi", "si", "{", "1", "}">>, <<"se", "jong", "1", ".">>,
     <<"chung", "cheong", "buk", "do", "1">>, <<" ", "chung", "buk", " ", "1", " ">>}

Addresses == ExampleAddresses \cup UNION {[1..n -> AddressChars] : n \in 0..MaxAddressLen}

\* Other spellings of an address: a space or a comma put in at any place, and
\* the other addresses of the example.
Respellings(a) ==
    {Slice(a, 1, i) \o <<ch>> \o Slice(a, i + 1, Len(a)) : i \in 0..Len(a), ch \in {" ", ","}}
        \cup (IF a \in ExampleAddresses THEN ExampleAddresses ELSE {})

InitKey ==
    /\ pc = "key_ready"
    /\ \E a \in Addresses : \E b \in Respellings(a) :
           call = [a |-> a, b |-> b, key_a |-> <<>>, key_b |-> <<>>]
    /\ CoreIdle
    /\ OthersIdle("call")

\* normalize_address_key on both addresses.
NormalizeKeys ==
    /\ pc = "key_ready"
    /\ call' = [call EXCEPT !.key_a = normalize_address_key(call.a),
                            !.key_b = normalize_address_key(call.b)]
    /\ pc' = "key_done"
    /\ UNCHANGED core_vars
    /\ OthersUnchanged("call")

NextKey == NormalizeKeys

SpecKey == InitKey /\ [][NextKey]_vars

\* ------------------------------------------- the worksheet as text

\* At this level a row is [attrs, cells] and a cell [attrs, inner_xml]: attrs is
\* the Vec<(String, String)> in the order of the tag, inner_xml an Option<String>.
NoText == [some |-> FALSE, val |-> <<>>]

is_ascii_whitespace(c) == c \in {" ", "\t", "\n", "\r", "\f"}

\* str::find from position i: the first position >= i where pat starts (0: None).
FindFrom(s, pat, i) ==
    IF {p \in i..Len(s) : StartsAt(s, pat, p)} = {} THEN 0
    ELSE MinOf({p \in i..Len(s) : StartsAt(s, pat, p)})

\* The first position >= i whose character is in stop (Len(s) + 1 when none).
FirstIn(s, i, stop) == MinOf({p \in i..Len(s) : s[p] \in stop} \cup {Max2(i, Len(s) + 1)})
\* The first position >= i whose character is not whitespace (Len(s) + 1 when none).
SkipWhitespace(s, i) == MinOf({p \in i..Len(s) : ~is_ascii_whitespace(s[p])} \cup {Max2(i, Len(s) + 1)})

RECURSIVE Concat(_)
Concat(ss) == IF ss = <<>> THEN <<>> ELSE Head(ss) \o Concat(Tail(ss))

xml_escape_attr(s) ==
    ReplaceAll(ReplaceAll(xml_escape_text(s), <<"\"">>, <<"&", "q", "u", "o", "t", ";">>),
               <<"'">>, <<"&", "a", "p", "o", "s", ";">>)

RECURSIVE ParseAttrsFrom(_, _, _)
\* The value is closed at position close: the pair is pushed and the loop goes on.
ParseAttrClosed(tag, key_start, key_end, quote, close, out) ==
    IF close > Len(tag) THEN Err
    ELSE ParseAttrsFrom(tag, close + 1,
             Append(out, <<Slice(tag, key_start, key_end - 1),
                           decode_xml_entities(Slice(tag, quote + 1, close - 1))>>))
\* The opening quote is expected at position quote.
ParseAttrQuote(tag, key_start, key_end, quote, out) ==
    IF quote > Len(tag) THEN Err
    ELSE IF tag[quote] \notin {"\"", "'"} THEN Err
    ELSE ParseAttrClosed(tag, key_start, key_end, quote, FirstIn(tag, quote + 1, {tag[quote]}), out)
\* The '=' is expected at position eq.
ParseAttrEquals(tag, key_start, key_end, eq, out) ==
    IF eq > Len(tag) THEN Err
    ELSE IF tag[eq] # "=" THEN Err
    ELSE ParseAttrQuote(tag, key_start, key_end, SkipWhitespace(tag, eq + 1), out)
\* The key runs from key_start to key_end - 1.
ParseAttrKey(tag, key_start, key_end, out) ==
    IF key_start = key_end THEN Err
    ELSE ParseAttrEquals(tag, key_start, key_end, SkipWhitespace(tag, key_end), out)
\* The loop of parse_tag_attrs from position i.
ParseAttrsFrom(tag, i, out) ==
    IF i > Len(tag) THEN Ok(out)
    ELSE IF SkipWhitespace(tag, i) > Len(tag) THEN Ok(out)
    ELSE IF tag[SkipWhitespace(tag, i)] \in {">", "/"} THEN Ok(out)
    ELSE ParseAttrKey(tag, SkipWhitespace(tag, i),
                      FirstIn(tag, SkipWhitespace(tag, i), {" ", "\t", "\n", "\r", "\f", "=", ">", "/"}), out)

parse_tag_attrs(tag) ==
    IF FindFrom(tag, <<"<">>, 1) = 0 THEN Err
    ELSE IF FirstIn(tag, FindFrom(tag, <<"<">>, 1) + 1, {" ", "\t", "\n", "\r", "\f", ">", "/"}) > Len(tag) THEN Err
    ELSE ParseAttrsFrom(tag, FirstIn(tag, FindFrom(tag, <<"<">>, 1) + 1, {" ", "\t", "\n", "\r", "\f", ">", "/"}), <<>>)

get_attr(attrs, name) ==
    IF \A i \in 1..Len(attrs) : attrs[i][1] # name THEN NoText
    ELSE Some(attrs[MinOf({i \in 1..Len(attrs) : attrs[i][1] = name})][2])

set_attr(attrs, name, value) ==
    IF \A i \in 1..Len(attrs) : attrs[i][1] # name THEN Append(attrs, <<name, value>>)
    ELSE [attrs EXCEPT ![MinOf({i \in 1..Len(attrs) : attrs[i][1] = name})] = <<name, value>>]

\* attr_sort_key: (rank, name); AttrKeyLess compares two keys.
attr_sort_key(name) ==
    <<IF name = <<"r">> THEN 0 ELSE IF name = <<"s">> THEN 1 ELSE IF name = <<"t">> THEN 2 ELSE 3, name>>
AttrKeyLess(a, b) == a[1] < b[1] \/ (a[1] = b[1] /\ StrCmp(a[2], b[2]) < 0)

\* sort_by (stable) on attr_sort_key: the place of attrs[i] in the sorted vector.
SortedPlace(attrs, i) ==
    Cardinality({j \in 1..Len(attrs) : AttrKeyLess(attr_sort_key(attrs[j][1]), attr_sort_key(attrs[i][1]))})
    + Cardinality({j \in 1..i : attr_sort_key(attrs[j][1]) = attr_sort_key(attrs[i][1])})
SortAttrs(attrs) ==
    [k \in 1..Len(attrs) |-> attrs[CHOOSE i \in 1..Len(attrs) : SortedPlace(attrs, i) = k]]

attrs_to_xml(attrs) ==
    Concat([i \in 1..Len(attrs) |->
               <<" ">> \o attrs[i][1] \o <<"=", "\"">> \o xml_escape_attr(attrs[i][2]) \o <<"\"">>])

\* parse_cell_ref: '$' is skipped; letters, then digits; Some(col) here (the
\* callers of this level use the column only).
parse_cell_ref(cell_ref) ==
    IF \E i \in 1..Len(cell_ref) : cell_ref[i] # "$" /\ ~is_ascii_alphanumeric(cell_ref[i]) THEN None
    ELSE IF \E i \in 1..Len(cell_ref) : \E j \in 1..(i - 1) :
                is_ascii_alphabetic(cell_ref[i]) /\ is_ascii_digit(cell_ref[j]) THEN None
    ELSE IF ~name_to_col(SelectSeq(cell_ref, is_ascii_alphabetic)).some THEN None
    ELSE IF ~ParseU32(SelectSeq(cell_ref, is_ascii_digit)).some THEN None
    ELSE Some(name_to_col(SelectSeq(cell_ref, is_ascii_alphabetic)).val)

cell_to_xml(cell) ==
    <<"<", "c">> \o attrs_to_xml(SortAttrs(cell.attrs))
        \o (IF cell.inner_xml.some THEN <<">">> \o cell.inner_xml.val \o <<"<", "/", "c", ">">>
            ELSE <<"/", ">">>)

row_to_xml(row) ==
    <<"<", "r", "o", "w">> \o attrs_to_xml(SortAttrs(row.attrs))
        \o (IF DOMAIN row.cells = {} THEN <<"/", ">">>
            ELSE <<">">> \o Concat([i \in 1..Cardinality(DOMAIN row.cells) |->
                                       cell_to_xml(row.cells[SortedRows(DOMAIN row.cells)[i]])])
                 \o <<"<", "/", "r", "o", "w", ">">>)

\* The column of a cell tag: its r attribute when it parses, else next_col.
CellColumn(attrs, next_col) ==
    IF get_attr(attrs, <<"r">>).some /\ parse_cell_ref(get_attr(attrs, <<"r">>).val).some
    THEN parse_cell_ref(get_attr(attrs, <<"r">>).val).val
    ELSE next_col

CellAttrs(attrs, col, row_num) == set_attr(attrs, <<"r">>, col_to_name(col) \o FormatNat(row_num))

RECURSIVE CellsFrom(_, _, _, _, _)
\* The cell with a body: its end tag is expected at position close.
CellWithBody(row_body, row_num, tag_end, close, cells, attrs, col) ==
    IF close = 0 THEN Err
    ELSE CellsFrom(row_body, row_num, close + 4, Min2(col + 1, U32Max),
             MapPut(cells, col, [attrs |-> CellAttrs(attrs, col, row_num),
                                 inner_xml |-> Some(Slice(row_body, tag_end + 1, close - 1))]))
\* The cell tag ends at tag_end and has the attributes attrs.
CellWithAttrs(row_body, row_num, tag_end, cells, attrs, col) ==
    IF row_body[tag_end - 1] = "/"
    THEN CellsFrom(row_body, row_num, tag_end + 1, Min2(col + 1, U32Max),
             MapPut(cells, col, [attrs |-> CellAttrs(attrs, col, row_num), inner_xml |-> NoText]))
    ELSE CellWithBody(row_body, row_num, tag_end, FindFrom(row_body, <<"<", "/", "c", ">">>, tag_end + 1),
                      cells, attrs, col)
\* The cell tag opens at cell_open.
CellTag(row_body, row_num, cell_open, tag_end, next_col, cells, attrs) ==
    IF ~attrs.ok THEN Err
    ELSE CellWithAttrs(row_body, row_num, tag_end, cells, attrs.val, CellColumn(attrs.val, next_col))
CellAt(row_body, row_num, cell_open, tag_end, next_col, cells) ==
    IF tag_end = 0 THEN Err
    ELSE CellTag(row_body, row_num, cell_open, tag_end, next_col, cells,
                 parse_tag_attrs(Slice(row_body, cell_open, tag_end)))
\* The loop of parse_row_cells from cursor.
CellsFrom(row_body, row_num, cursor, next_col, cells) ==
    IF FindFrom(row_body, <<"<", "c">>, cursor) = 0 THEN Ok(cells)
    ELSE CellAt(row_body, row_num, FindFrom(row_body, <<"<", "c">>, cursor),
                FindFrom(row_body, <<">">>, FindFrom(row_body, <<"<", "c">>, cursor)), next_col, cells)

parse_row_cells(row_body, row_num) == CellsFrom(row_body, row_num, 1, 1, EmptyMap)

\* The number of a row tag: its r attribute when it is a u32, else the last
\* row number so far (0 when none) plus one.
RowNumber(attrs, rows) ==
    IF get_attr(attrs, <<"r">>).some /\ ParseU32(get_attr(attrs, <<"r">>).val).some
    THEN ParseU32(get_attr(attrs, <<"r">>).val).val
    ELSE ((IF DOMAIN rows = {} THEN 0 ELSE MaxOf(DOMAIN rows)) + 1) % (U32Max + 1)

RECURSIVE RowsFrom(_, _, _)
\* The cells of the row are parsed: the row is inserted and the loop goes on.
RowWithCells(body, close, rows, attrs, row_num, cells) ==
    IF ~cells.ok THEN Err
    ELSE RowsFrom(body, close + 6,
             MapPut(rows, row_num, [attrs |-> set_attr(attrs, <<"r">>, FormatNat(row_num)),
                                    cells |-> cells.val]))
\* The row with a body: its end tag is expected at position close.
RowWithBody(body, tag_end, close, rows, attrs, row_num) ==
    IF close = 0 THEN Err
    ELSE RowWithCells(body, close, rows, attrs, row_num,
                      parse_row_cells(Slice(body, tag_end + 1, close - 1), row_num))
RowWithNumber(body, tag_end, rows, attrs, row_num) ==
    IF body[tag_end - 1] = "/"
    THEN RowsFrom(body, tag_end + 1,
             MapPut(rows, row_num, [attrs |-> set_attr(attrs, <<"r">>, FormatNat(row_num)),
                                    cells |-> EmptyMap]))
    ELSE RowWithBody(body, tag_end, FindFrom(body, <<"<", "/", "r", "o", "w", ">">>, tag_end + 1),
                     rows, attrs, row_num)
RowTag(body, tag_end, rows, attrs) ==
    IF ~attrs.ok THEN Err
    ELSE RowWithNumber(body, tag_end, rows, attrs.val, RowNumber(attrs.val, rows))
RowAt(body, row_open, tag_end, rows) ==
    IF tag_end = 0 THEN Err
    ELSE RowTag(body, tag_end, rows, parse_tag_attrs(Slice(body, row_open, tag_end)))
\* The loop of parse_rows_from_sheet_data from cursor.
RowsFrom(body, cursor, rows) ==
    IF FindFrom(body, <<"<", "r", "o", "w">>, cursor) = 0 THEN Ok(rows)
    ELSE RowAt(body, FindFrom(body, <<"<", "r", "o", "w">>, cursor),
               FindFrom(body, <<">">>, FindFrom(body, <<"<", "r", "o", "w">>, cursor)), rows)

parse_rows_from_sheet_data(body) == RowsFrom(body, 1, EmptyMap)

\* local_tag_name: the part behind the last ':'.
local_tag_name(name) == Slice(name, MaxOf({0} \cup {i \in 1..Len(name) : name[i] = ":"}) + 1, Len(name))

\* find_start_tag: the first '<' at or behind from that opens a tag of that local name (0: None).
find_start_tag(xml, tag_name, from) ==
    IF {p \in from..Len(xml) : /\ xml[p] = "<"
                               /\ (p < Len(xml) => xml[p + 1] \notin {"/", "!", "?"})
                               /\ FirstIn(xml, p + 1, {" ", "\t", "\n", "\r", "\f", "/", ">"}) > p + 1
                               /\ local_tag_name(Slice(xml, p + 1,
                                      FirstIn(xml, p + 1, {" ", "\t", "\n", "\r", "\f", "/", ">"}) - 1)) = tag_name} = {}
    THEN 0
    ELSE MinOf({p \in from..Len(xml) : /\ xml[p] = "<"
                               /\ (p < Len(xml) => xml[p + 1] \notin {"/", "!", "?"})
                               /\ FirstIn(xml, p + 1, {" ", "\t", "\n", "\r", "\f", "/", ">"}) > p + 1
                               /\ local_tag_name(Slice(xml, p + 1,
                                      FirstIn(xml, p + 1, {" ", "\t", "\n", "\r", "\f", "/", ">"}) - 1)) = tag_name})

\* find_end_tag: the first "</" at or behind from that closes a tag of that local name (0: None).
find_end_tag(xml, tag_name, from) ==
    IF {p \in from..Len(xml) : /\ StartsAt(xml, <<"<", "/">>, p)
                               /\ FirstIn(xml, p + 2, {" ", "\t", "\n", "\r", "\f", ">"}) > p + 2
                               /\ local_tag_name(Slice(xml, p + 2,
                                      FirstIn(xml, p + 2, {" ", "\t", "\n", "\r", "\f", ">"}) - 1)) = tag_name} = {}
    THEN 0
    ELSE MinOf({p \in from..Len(xml) : /\ StartsAt(xml, <<"<", "/">>, p)
                               /\ FirstIn(xml, p + 2, {" ", "\t", "\n", "\r", "\f", ">"}) > p + 2
                               /\ local_tag_name(Slice(xml, p + 2,
                                      FirstIn(xml, p + 2, {" ", "\t", "\n", "\r", "\f", ">"}) - 1)) = tag_name})

find_tag_end(xml, tag_start) == FindFrom(xml, <<">">>, tag_start)

SheetDataName == <<"s", "h", "e", "e", "t", "D", "a", "t", "a">>

\* Worksheet::parse from the positions of the start tag, its end and the end tag.
ParseSheetBody(xml, body_start, close, rows) ==
    IF ~rows.ok THEN Err
    ELSE Ok([prefix |-> Slice(xml, 1, body_start - 1), suffix |-> Slice(xml, close, Len(xml)),
             rows |-> rows.val])
ParseSheetData(xml, open_end, close) ==
    IF close = 0 THEN Err
    ELSE ParseSheetBody(xml, open_end + 1, close,
                        parse_rows_from_sheet_data(Slice(xml, open_end + 1, close - 1)))
ParseSheetOpen(xml, open, open_end) ==
    IF open_end = 0 THEN Err
    ELSE ParseSheetData(xml, open_end, find_end_tag(xml, SheetDataName, open_end + 1))
Worksheet_parse(xml) ==
    IF find_start_tag(xml, SheetDataName, 1) = 0 THEN Err
    ELSE ParseSheetOpen(xml, find_start_tag(xml, SheetDataName, 1),
                        find_tag_end(xml, find_start_tag(xml, SheetDataName, 1)))

Worksheet_to_xml(ws) ==
    ws.prefix \o Concat([i \in 1..Cardinality(DOMAIN ws.rows) |->
                            row_to_xml(ws.rows[SortedRows(DOMAIN ws.rows)[i]])])
        \o ws.suffix

\* The rows of the generated markups.
\* canonical, with an escaped attribute value
PlainRow1 ==
    <<"<", "r", "o", "w", " ", "r", "=", "\"", "1", "\"", " ", "h", "t", "=", "\"", "5", "\"",
      " ", "x", "=", "\"", "a", "&", "a", "m", "p", ";", "b", "\"", ">", "<", "c", " ",
      "r", "=", "\"", "A", "1", "\"", " ", "s", "=", "\"", "1", "\"", "/", ">", "<", "c",
      " ", "r", "=", "\"", "B", "1", "\"", " ", "t", "=", "\"", "s", "\"", ">", "<", "v",
      ">", "0", "<", "/", "v", ">", "<", "/", "c", ">", "<", "/", "r", "o", "w", ">">>
\* canonical, self-closing
PlainRow2 ==
    <<"<", "r", "o", "w", " ", "r", "=", "\"", "2", "\"", "/", ">">>
\* canonical, with an empty cell that is not self-closing
PlainRow3 ==
    <<"<", "r", "o", "w", " ", "r", "=", "\"", "3", "\"", " ", "s", "=", "\"", "2", "\"", ">",
      "<", "c", " ", "r", "=", "\"", "A", "3", "\"", ">", "<", "/", "c", ">", "<", "c",
      " ", "r", "=", "\"", "C", "3", "\"", " ", "s", "=", "\"", "1", "\"", " ", "t", "=",
      "\"", "n", "\"", ">", "<", "v", ">", "7", "<", "/", "v", ">", "<", "/", "c", ">",
      "<", "/", "r", "o", "w", ">">>
\* r first, the other attributes not in name order
UnsortedOthersRow ==
    <<"<", "r", "o", "w", " ", "r", "=", "\"", "1", "\"", " ", "x", "=", "\"", "1", "\"", " ",
      "h", "t", "=", "\"", "5", "\"", ">", "<", "c", " ", "r", "=", "\"", "A", "1", "\"",
      "/", ">", "<", "/", "r", "o", "w", ">">>
\* single-quoted value
SingleQuoteRow ==
    <<"<", "r", "o", "w", " ", "r", "=", "'", "2", "'", "/", ">">>
\* no cells, not self-closing
EmptyPairRow ==
    <<"<", "r", "o", "w", " ", "r", "=", "\"", "2", "\"", ">", "<", "/", "r", "o", "w", ">">>
\* no r attributes
NoNumberRow ==
    <<"<", "r", "o", "w", ">", "<", "c", "/", ">", "<", "/", "r", "o", "w", ">">>
\* t before r
TypeFirstRow ==
    <<"<", "r", "o", "w", " ", "r", "=", "\"", "3", "\"", ">", "<", "c", " ", "t", "=", "\"",
      "s", "\"", " ", "r", "=", "\"", "A", "3", "\"", ">", "<", "v", ">", "0", "<", "/",
      "v", ">", "<", "/", "c", ">", "<", "/", "r", "o", "w", ">">>
\* a space before the end of the tag
PaddedRow ==
    <<"<", "r", "o", "w", " ", "r", "=", "\"", "2", "\"", " ", "/", ">">>
\* a cell reference with locks
LockedRefRow ==
    <<"<", "r", "o", "w", " ", "r", "=", "\"", "3", "\"", ">", "<", "c", " ", "r", "=", "\"",
      "$", "A", "$", "3", "\"", "/", ">", "<", "/", "r", "o", "w", ">">>
\* no end tag
UnclosedRow ==
    <<"<", "r", "o", "w", " ", "r", "=", "\"", "3", "\"", ">", "<", "c", " ", "r", "=", "\"",
      "A", "3", "\"", "/", ">">>

RowTexts ==
    {PlainRow1, PlainRow2, PlainRow3, UnsortedOthersRow, SingleQuoteRow, EmptyPairRow,
     NoNumberRow, TypeFirstRow, PaddedRow, LockedRefRow, UnclosedRow}

\* The text before the rows (with and without a namespace prefix) and behind them.
SheetHead ==
    <<"<", "w", ">", "<", "s", "h", "e", "e", "t", "D", "a", "t", "a", ">">>
PrefixedSheetHead ==
    <<"<", "x", ":", "w", ">", "<", "x", ":", "s", "h", "e", "e", "t", "D", "a", "t", "a", ">">>
SheetTail ==
    <<"<", "/", "s", "h", "e", "e", "t", "D", "a", "t", "a", ">", "<", "p", "/", ">", "<", "/",
      "w", ">">>
PrefixedSheetTail ==
    <<"<", "/", "x", ":", "s", "h", "e", "e", "t", "D", "a", "t", "a", ">", "<", "/", "x", ":",
      "w", ">">>

\* The number of rows of a generated markup.
MaxSheetRows == 2

\* The markups: a head, up to MaxSheetRows rows with the same text before each
\* (nothing or a line break), and a tail; and markups with no rows, without
\* sheetData or without its end.
SheetTexts ==
    {h \o t : h \in {SheetHead, PrefixedSheetHead},
              t \in {SheetTail, PrefixedSheetTail, <<"<", "/", "w", ">">>}}
    \cup {<<"<", "w", "/", ">">>, SheetHead \o PlainRow1 \o <<"<", "/", "s", "h", "e", "e", "t", "D", "a", "t", "a">>}
    \cup UNION {{SheetHead \o Concat([i \in 1..n |-> gap \o rws[i]]) \o SheetTail :
                    gap \in {<<>>, <<"\n">>}, rws \in [1..n -> RowTexts]} : n \in 1..MaxSheetRows}

InitSheetText ==
    /\ pc = "xml_ready"
    /\ \E xml \in SheetTexts : call = [xml |-> xml, ws |-> Idle, out |-> <<>>]
    /\ CoreIdle
    /\ OthersIdle("call")

\* Worksheet::parse on the markup.
ParseSheet ==
    /\ pc = "xml_ready"
    /\ pc' = IF Worksheet_parse(call.xml).ok THEN "xml_parsed" ELSE "xml_failed"
    /\ call' = [call EXCEPT !.ws = IF Worksheet_parse(call.xml).ok THEN Worksheet_parse(call.xml).val
                                    ELSE Idle]
    /\ UNCHANGED core_vars
    /\ OthersUnchanged("call")

\* Worksheet::to_xml on the parsed worksheet.
SerializeSheet ==
    /\ pc = "xml_parsed"
    /\ pc' = "xml_written"
    /\ call' = [call EXCEPT !.out = Worksheet_to_xml(call.ws)]
    /\ UNCHANGED core_vars
    /\ OthersUnchanged("call")

NextSheetText == ParseSheet \/ SerializeSheet

SpecSheetText == InitSheetText /\ [][NextSheetText]_vars

\* ------------------------------------------- renumbering a row on its own

\* The resolver of these runs: every row number resolves to itself.
IdentityResolver == [r \in 0..U32Max |-> r]

\* The row pairs (r1, r2) of the runs.
RenumberPairs == {<<1, 2>>, <<2, 1>>, <<3, U32Max>>}

\* A row numbered r with a number, a formula, a styled empty cell and a text.
RowWithFormula(r, f) ==
    MkRow(r, "ht", CellsOf({<<1, NumCell(r, 4)>>, <<2, FormulaCell(r, f)>>,
                            <<3, MkCell(r, "1", "", NoInner)>>, <<4, TextCell(r, <<"A", "1">>)>>}))

InitRenumber ==
    /\ pc = "rn_ready"
    /\ \E f \in Formulas : \E p \in RenumberPairs :
           call = [row |-> RowWithFormula(p[1], f), r1 |-> p[1], r2 |-> p[2], there |-> Idle, back |-> Idle]
    /\ CoreIdle
    /\ OthersIdle("call")

\* remap_row_numbers(row, r2, identity)
RenumberThere ==
    /\ pc = "rn_ready"
    /\ pc' = "rn_there"
    /\ call' = [call EXCEPT !.there = remap_row_numbers(call.row, call.r2, IdentityResolver)]
    /\ UNCHANGED core_vars
    /\ OthersUnchanged("call")

\* remap_row_numbers(result, r1, identity)
RenumberBack ==
    /\ pc = "rn_there"
    /\ pc' = "rn_back"
    /\ call' = [call EXCEPT !.back = remap_row_numbers(call.there, call.r1, IdentityResolver)]
    /\ UNCHANGED core_vars
    /\ OthersUnchanged("call")

NextRenumber == RenumberThere \/ RenumberBack

SpecRenumber == InitRenumber /\ [][NextRenumber]_vars

\* ------------------------------------------- the compound file reader

\* The sentinels of a FAT, at the top of the u32 range.
CFB_FREE_SECT == U32Max
CFB_END_OF_CHAIN == U32Max - 1
CFB_FAT_SECT == U32Max - 2
CFB_DIFAT_SECT == U32Max - 3

is_regular_sector_id(v) ==
    v \notin {CFB_FREE_SECT, CFB_END_OF_CHAIN, CFB_FAT_SECT, CFB_DIFAT_SECT}

StreamError == [ok |-> FALSE, val |-> <<>>]

\* The bytes of a file are modelled by where they are: byte k of sector sid,
\* and byte k of mini sector sid of the root stream.
SectorByte(sid, k) == 100 + 10 * sid + k
MiniByte(sid, k) == 200 + 10 * sid + k

\* get_sector_slice: sector sid lies after the header, which takes the room
\* of one sector; an error when it is not wholly inside the data.
get_sector_slice(file, sid) ==
    IF (sid + 2) * file.sector_size <= file.data_len
    THEN Ok([k \in 1..file.sector_size |-> SectorByte(sid, k - 1)])
    ELSE StreamError

\* The chunk of the root stream that is mini sector sid.
MiniChunk(file, sid) ==
    IF (sid + 1) * file.mini_sector_size <= file.root_len
    THEN Ok([k \in 1..file.mini_sector_size |-> MiniByte(sid, k - 1)])
    ELSE StreamError

\* The directory entry read_stream_by_name looks up: the first stream object
\* (object type 2) of that name; 0 when there is none.
FindEntry(directory, name) ==
    IF \A i \in 1..Len(directory) : ~(directory[i].object_type = 2 /\ directory[i].name = name)
    THEN 0
    ELSE MinOf({i \in 1..Len(directory) :
                   directory[i].object_type = 2 /\ directory[i].name = name})

Returned(c, res) ==
    [c EXCEPT !.pc = "done", !.result = res]

Looping(c, loop, start_sector, size) ==
    [c EXCEPT !.pc = loop, !.sid = start_sector, !.seen = {}, !.out = <<>>, !.remaining = size]

\* read_stream_by_name up to the loop of the chain it chooses: the directory
\* lookup, the choice between the mini chain and the FAT chain, and the early
\* return of read_stream_from_fat_chain for a start sector that is a sentinel.
OpenStream(c, entry) ==
    IF entry.stream_size < c.file.mini_stream_cutoff_size /\ is_regular_sector_id(entry.start_sector)
    THEN Looping(c, "mini_loop", entry.start_sector, entry.stream_size)
    ELSE IF ~is_regular_sector_id(entry.start_sector)
    THEN Returned(c, Ok(<<>>))
    ELSE Looping(c, "fat_loop", entry.start_sector, entry.stream_size)

read_stream_by_name(c) ==
    IF FindEntry(c.file.directory, c.name) = 0 THEN Returned(c, StreamError)
    ELSE OpenStream(c, c.file.directory[FindEntry(c.file.directory, c.name)])

\* The end of one iteration: the link of sid in the table; a free link ends
\* the stream, a missing link is an error.
FollowLink(c, table, out, remaining) ==
    IF c.sid + 1 > Len(table) THEN Returned(c, StreamError)
    ELSE IF table[c.sid + 1] = CFB_FREE_SECT
    THEN Returned([c EXCEPT !.out = out, !.remaining = remaining], Ok(out))
    ELSE [c EXCEPT !.sid = table[c.sid + 1], !.seen = c.seen \cup {c.sid},
                   !.out = out, !.remaining = remaining]

TakeFrom(c, table, chunk) ==
    FollowLink(c, table, c.out \o SubSeq(chunk, 1, Min2(c.remaining, Len(chunk))),
               c.remaining - Min2(c.remaining, Len(chunk)))

\* One test of the loop condition of read_stream_from_fat_chain (with a size
\* limit) and, when it holds, one pass through the body.
fat_chain_iteration(c) ==
    IF c.sid = CFB_END_OF_CHAIN THEN Returned(c, Ok(c.out))
    ELSE IF c.remaining = 0 THEN Returned(c, Ok(c.out))
    ELSE IF ~is_regular_sector_id(c.sid) THEN Returned(c, StreamError)
    ELSE IF c.sid \in c.seen THEN Returned(c, StreamError)
    ELSE IF ~get_sector_slice(c.file, c.sid).ok THEN Returned(c, StreamError)
    ELSE TakeFrom(c, c.file.fat, get_sector_slice(c.file, c.sid).val)

\* One test of the loop condition of read_stream_from_mini_chain and, when it
\* holds, one pass through the body.
mini_chain_iteration(c) ==
    IF c.sid = CFB_END_OF_CHAIN \/ c.remaining = 0 THEN Returned(c, Ok(c.out))
    ELSE IF c.sid \in c.seen THEN Returned(c, StreamError)
    ELSE IF ~MiniChunk(c.file, c.sid).ok THEN Returned(c, StreamError)
    ELSE TakeFrom(c, c.file.mini_fat, MiniChunk(c.file, c.sid).val)

\* The links of a table: the sectors of the file (0 and 1), a sector past its
\* end (2), and the sentinels.
Links == {0, 1, 2, CFB_END_OF_CHAIN, CFB_FREE_SECT, CFB_FAT_SECT, CFB_DIFAT_SECT}
Tables == [1..2 -> Links]
PlainTable == <<1, CFB_END_OF_CHAIN>>
StreamSizes == {0, 1, 2, 3, 4, 5, 7}
StreamNames == {"Workbook", "Book"}

\* A file of a header and two sectors of two bytes, a root stream of two mini
\* sectors of one byte, and streams below three bytes in the mini stream.
CfbFileOf(fat, mini_fat, start_sector, stream_size) ==
    [sector_size |-> 2, mini_sector_size |-> 1, mini_stream_cutoff_size |-> 3,
     data_len |-> 6, root_len |-> 2, fat |-> fat, mini_fat |-> mini_fat,
     directory |-> <<[name |-> "Root Entry", object_type |-> 5, start_sector |-> 0, stream_size |-> 2],
                     [name |-> "Workbook", object_type |-> 2, start_sector |-> start_sector,
                      stream_size |-> stream_size]>>]

CfbFiles ==
    {CfbFileOf(t, PlainTable, st, sz) : t \in Tables, st \in Links, sz \in StreamSizes}
        \cup {CfbFileOf(PlainTable, t, st, sz) : t \in Tables, st \in Links, sz \in StreamSizes}

InitCfb ==
    /\ pc = "cfb"
    /\ CoreIdle
    /\ OthersIdle("cfb")
    /\ \E file \in CfbFiles : \E name \in StreamNames :
           cfb = [file |-> file, name |-> name, pc |-> "call", sid |-> 0, seen |-> {},
                  out |-> <<>>, remaining |-> 0, result |-> StreamError]

ReadStreamByName ==
    /\ pc = "cfb"
    /\ cfb.pc = "call"
    /\ cfb' = read_stream_by_name(cfb)
    /\ UNCHANGED <<pc, core_vars>>
    /\ OthersUnchanged("cfb")

FatChainStep ==
    /\ pc = "cfb"
    /\ cfb.pc = "fat_loop"
    /\ cfb' = fat_chain_iteration(cfb)
    /\ UNCHANGED <<pc, core_vars>>
    /\ OthersUnchanged("cfb")

MiniChainStep ==
    /\ pc = "cfb"
    /\ cfb.pc = "mini_loop"
    /\ cfb' = mini_chain_iteration(cfb)
    /\ UNCHANGED <<pc, core_vars>>
    /\ OthersUnchanged("cfb")

NextCfb == ReadStreamByName \/ FatChainStep \/ MiniChainStep

SpecCfb == InitCfb /\ [][NextCfb]_vars

\* The loops are sequential code: a step that can be taken is taken.
SpecCfbFair == SpecCfb /\ WF_vars(NextCfb)

\* ------------------------------------------- the source file reader

DEFAULT_SOURCE_HEADER_SCAN_ROWS == 200

SourceError == [ok |-> FALSE, val |-> <<>>]

\* A row of a source sheet is modelled by what the reader makes of it:
\* "header" (parse_source_header_indices finds the three required columns),
\* the name of a station (build_source_record_from_row makes a record of it),
\* or "other" (neither).
StationRows == {"s1", "s2"}
IsStation(row) == row \in StationRows

FirstHeader(rows) ==
    IF \A i \in 1..Min2(Len(rows), DEFAULT_SOURCE_HEADER_SCAN_ROWS) : rows[i] # "header" THEN 0
    ELSE MinOf({i \in 1..Min2(Len(rows), DEFAULT_SOURCE_HEADER_SCAN_ROWS) : rows[i] = "header"})

build_source_records_from_rows(rows) ==
    IF FirstHeader(rows) = 0 THEN SourceError
    ELSE Ok(SelectSeq(SubSeq(rows, FirstHeader(rows) + 1, Len(rows)), IsStation))

\* The Workbook stream is modelled by its records in order, each [id, len,
\* size, row], and its length in bytes: a record is 4 bytes that give its id
\* and the length len of its data, followed by size bytes up to the next record.
BiffNumber == 515
BiffEof == 10

RECURSIVE RecordStart(_, _)
RecordStart(records, i) ==
    IF i <= 1 THEN 0 ELSE RecordStart(records, i - 1) + 4 + records[i - 1].size

RecordIndexAt(records, pos) ==
    CHOOSE i \in 1..Len(records) : RecordStart(records, i) = pos

\* read_biff_record: [ok, some, rec, pos]; None when fewer than 4 bytes are
\* left, an error when the record says it ends after the stream.
read_biff_record(stream, pos) ==
    IF pos + 4 > stream.len THEN [ok |-> TRUE, some |-> FALSE, rec |-> 0, pos |-> pos]
    ELSE IF pos + 4 + stream.records[RecordIndexAt(stream.records, pos)].len > stream.len
    THEN [ok |-> FALSE, some |-> FALSE, rec |-> 0, pos |-> pos]
    ELSE [ok |-> TRUE, some |-> TRUE, rec |-> RecordIndexAt(stream.records, pos),
          pos |-> pos + 4 + stream.records[RecordIndexAt(stream.records, pos)].len]

\* The loop of parse_biff_worksheet_cells with handle_biff_worksheet_record:
\* a cell record adds its row, the EOF record ends the sheet, any other
\* record is passed over.
RECURSIVE WorksheetRecords(_, _, _)
WorksheetAfter(stream, got, rows) ==
    IF ~got.ok THEN SourceError
    ELSE IF ~got.some THEN Ok(rows)
    ELSE IF stream.records[got.rec].id = BiffEof THEN Ok(rows)
    ELSE IF stream.records[got.rec].id = BiffNumber
    THEN WorksheetRecords(stream, got.pos, Append(rows, stream.records[got.rec].row))
    ELSE WorksheetRecords(stream, got.pos, rows)
WorksheetRecords(stream, pos, rows) ==
    WorksheetAfter(stream, read_biff_record(stream, pos), rows)

parse_biff_worksheet_cells(stream, sheet_offset) ==
    IF sheet_offset >= stream.len THEN SourceError
    ELSE WorksheetRecords(stream, sheet_offset, <<>>)

\* The loop of read_xls_source over the worksheets (sheet type 0): an error
\* of parse_biff_worksheet_cells is returned at once, an error of
\* build_source_records_from_rows is kept as last_err.
RECURSIVE XlsSheets(_, _, _, _)
XlsSheetBuilt(file, i, all, last_err, built) ==
    IF built.ok THEN XlsSheets(file, i + 1, all \o built.val, last_err)
    ELSE XlsSheets(file, i + 1, all, TRUE)
XlsSheetParsed(file, i, all, last_err, parsed) ==
    IF ~parsed.ok THEN SourceError
    ELSE XlsSheetBuilt(file, i, all, last_err, build_source_records_from_rows(parsed.val))
XlsSheets(file, i, all, last_err) ==
    IF i > Len(file.boundsheets) THEN (IF all # <<>> THEN Ok(all) ELSE SourceError)
    ELSE IF file.boundsheets[i].sheet_type # 0 THEN XlsSheets(file, i + 1, all, last_err)
    ELSE XlsSheetParsed(file, i, all, last_err,
                        parse_biff_worksheet_cells(file.stream, file.boundsheets[i].offset))

read_xls_source(file) == XlsSheets(file, 1, <<>>, FALSE)

\* A sheet of an xlsx file: whether its part can be read (load_sheet_xml),
\* whether its markup can be parsed, and its rows.
parse_sheet_source_records(sheet) ==
    IF ~sheet.well_formed THEN SourceError ELSE build_source_records_from_rows(sheet.rows)

RECURSIVE XlsxSheets(_, _, _, _)
XlsxSheetBuilt(file, i, all, last_err, built) ==
    IF built.ok THEN XlsxSheets(file, i + 1, all \o built.val, last_err)
    ELSE XlsxSheets(file, i + 1, all, TRUE)
XlsxSheets(file, i, all, last_err) ==
    IF i > Len(file.sheets) THEN (IF all # <<>> THEN Ok(all) ELSE SourceError)
    ELSE IF ~file.sheets[i].readable THEN SourceError
    ELSE XlsxSheetBuilt(file, i, all, last_err, parse_sheet_source_records(file.sheets[i]))

read_xlsx_source(file) ==
    IF file.sheets = <<>> THEN SourceError ELSE XlsxSheets(file, 1, <<>>, FALSE)

read_source_file(file) ==
    IF file.kind = "xlsx" THEN read_xlsx_source(file)
    ELSE IF file.kind = "xls" THEN read_xls_source(file)
    ELSE SourceError

\* The rows of a sheet of the inputs.
SheetRows ==
    {<<"header", "s1">>, <<"other", "header", "s2", "other", "s1">>, <<"header">>, <<"s1">>}

\* The records of one sheet substream: BOF, a cell record for each row, EOF.
\* In a damaged substream the last cell record says it is longer than the
\* stream.
CellRecords(rows, damaged) ==
    [k \in 1..Len(rows) |->
        [id |-> BiffNumber, len |-> IF damaged /\ k = Len(rows) THEN 200 ELSE 14, size |-> 14,
         row |-> rows[k]]]
SheetRecords(sheet) ==
    <<[id |-> 2057, len |-> 16, size |-> 16, row |-> "other"]>>
        \o CellRecords(sheet.rows, sheet.damaged)
        \o <<[id |-> BiffEof, len |-> 0, size |-> 0, row |-> "other"]>>

BiffSheets == [rows : SheetRows, damaged : BOOLEAN, sheet_type : {0, 2}]
XlsxSheetSet == [rows : SheetRows, readable : BOOLEAN, well_formed : BOOLEAN]

\* The bytes these records take, and the file of one or two sheets: the
\* stream is whole, or ends inside its last records.
StreamLength(records) == RecordStart(records, Len(records) + 1)

XlsFileOf(sheets, cut) ==
    [kind |-> "xls",
     stream |-> [records |-> Concat([i \in 1..Len(sheets) |-> SheetRecords(sheets[i])]),
                 len |-> StreamLength(Concat([i \in 1..Len(sheets) |-> SheetRecords(sheets[i])])) - cut],
     boundsheets |-> [i \in 1..Len(sheets) |->
                         [offset |-> StreamLength(Concat([j \in 1..(i - 1) |-> SheetRecords(sheets[j])])),
                          sheet_type |-> sheets[i].sheet_type]]]

XlsFiles ==
    {XlsFileOf(<<a>>, cut) : a \in BiffSheets, cut \in {0, 2, 6}}
        \cup {XlsFileOf(<<a, b>>, 0) : a \in BiffSheets, b \in BiffSheets}
XlsxFiles ==
    {[kind |-> "xlsx", sheets |-> <<>>]}
        \cup {[kind |-> "xlsx", sheets |-> <<a>>] : a \in XlsxSheetSet}
        \cup {[kind |-> "xlsx", sheets |-> <<a, b>>] : a \in XlsxSheetSet, b \in XlsxSheetSet}

InitSource ==
    /\ pc = "source_ready"
    /\ CoreIdle
    /\ OthersIdle("call")
    /\ \E file \in XlsFiles \cup XlsxFiles : call = [file |-> file, result |-> SourceError]

ReadSource ==
    /\ pc = "source_ready"
    /\ pc' = "source_read"
    /\ call' = [call EXCEPT !.result = read_source_file(call.file)]
    /\ UNCHANGED core_vars
    /\ OthersUnchanged("call")

NextSource == ReadSource

SpecSource == InitSource /\ [][NextSource]_vars

\* ------------------------------------------- single-byte text of an xls file

\* The bytes of the model: the digit 1 (0x31) and the two high bytes 0xB0 and
\* 0xA1. A decoded character is named by a string.
TextBytes == {49, 176, 161}
IsAsciiByte(b) == b < 128

\* char::from(byte): the character of the same code point.
Latin1Char(b) == IF b = 49 THEN "1" ELSE IF b = 176 THEN "U+00B0" ELSE "U+00A1"

\* The character CP949 gives a pair of high bytes (each pair of the two high
\* bytes of the model is a character of the KS X 1001 plane).
Cp949Pair(lead, trail) ==
    IF lead = 176 /\ trail = 161 THEN "U+AC00"
    ELSE IF lead = 176 THEN "ks_B0B0"
    ELSE IF trail = 161 THEN "U+3000"
    ELSE "ks_A1B0"

\* A strict CP949 decoder: None when a high byte has no high byte after it
\* (the digit 1 is not a trail byte).
RECURSIVE Cp949From(_, _, _)
Cp949From(bytes, i, out) ==
    IF i > Len(bytes) THEN Some(out)
    ELSE IF IsAsciiByte(bytes[i]) THEN Cp949From(bytes, i + 1, Append(out, Latin1Char(bytes[i])))
    ELSE IF i = Len(bytes) \/ IsAsciiByte(bytes[i + 1]) THEN [some |-> FALSE, val |-> <<>>]
    ELSE Cp949From(bytes, i + 2, Append(out, Cp949Pair(bytes[i], bytes[i + 1])))
Cp949Strict(bytes) == Cp949From(bytes, 1, <<>>)

decode_latin1(bytes) == [i \in 1..Len(bytes) |-> Latin1Char(bytes[i])]

\* decode_windows_1252 differs from Latin-1 only for 0x80..0x9F.
decode_windows_1252(bytes) == decode_latin1(bytes)

decode_ascii_with_replacement(bytes) ==
    [i \in 1..Len(bytes) |-> IF IsAsciiByte(bytes[i]) THEN Latin1Char(bytes[i]) ELSE "U+FFFD"]

\* String::from_utf8_lossy: each of the two high bytes is a continuation byte
\* without a lead byte, and becomes one U+FFFD.
from_utf8_lossy(bytes) == decode_ascii_with_replacement(bytes)

\* windows_api::decode_code_page (MultiByteToWideChar with
\* MB_ERR_INVALID_CHARS): None when the bytes are not valid in the code page.
decode_code_page(bytes, code_page) ==
    IF bytes = <<>> THEN Some(<<>>)
    ELSE IF code_page = 949 THEN Cp949Strict(bytes)
    ELSE IF code_page = 65001
    THEN (IF \A i \in 1..Len(bytes) : IsAsciiByte(bytes[i]) THEN Some(decode_latin1(bytes))
          ELSE [some |-> FALSE, val |-> <<>>])
    ELSE Some(decode_windows_1252(bytes))

\* decode_cp949_non_windows: ASCII as it is; otherwise what iconv or python
\* makes of the bytes, None when neither is there or the bytes are invalid
\* (a cached text is the text an earlier call decoded from the same bytes).
decode_cp949_non_windows(bytes, env) ==
    IF bytes = <<>> THEN Some(<<>>)
    ELSE IF \A i \in 1..Len(bytes) : IsAsciiByte(bytes[i]) THEN Some(decode_latin1(bytes))
    ELSE IF env.decoder THEN Cp949Strict(bytes)
    ELSE [some |-> FALSE, val |-> <<>>]

\* The match of decode_single_byte_text on the code page.
DecodeByCodePage(bytes, code_page, env) ==
    IF code_page = Some(65001) THEN Ok(from_utf8_lossy(bytes))
    ELSE IF code_page \in {Some(949), Some(1361), Some(51949)}
    THEN (IF ~env.windows /\ decode_cp949_non_windows(bytes, env).some
          THEN Ok(decode_cp949_non_windows(bytes, env).val)
          ELSE IF env.strict THEN SourceError
          ELSE Ok(decode_ascii_with_replacement(bytes)))
    ELSE IF code_page \in {Some(1252), Some(28591)} THEN Ok(decode_windows_1252(bytes))
    ELSE Ok(decode_latin1(bytes))

\* decode_single_byte_text in the build of env: the Windows build asks the
\* system first, with code page 949 for an absent code page.
decode_single_byte_text(bytes, code_page, env) ==
    IF env.windows /\ decode_code_page(bytes, IF code_page.some THEN code_page.val ELSE 949).some
    THEN Ok(decode_code_page(bytes, IF code_page.some THEN code_page.val ELSE 949).val)
    ELSE DecodeByCodePage(bytes, code_page, env)

\* The records of the globals substream, each [id, len, cp]: CODEPAGE (0x0042)
\* with its code page, BOUNDSHEET (0x0085), EOF.
\* detect_biff_code_page: the first CODEPAGE record of at least 2 bytes
\* before the first EOF.
RECURSIVE detect_biff_code_page(_, _)
detect_biff_code_page(records, i) ==
    IF i > Len(records) THEN None
    ELSE IF records[i].id = 66 /\ records[i].len >= 2 THEN Some(records[i].cp)
    ELSE IF records[i].id = BiffEof THEN None
    ELSE detect_biff_code_page(records, i + 1)

\* The loop of parse_biff_globals for the code page and the sheets: every
\* CODEPAGE record of at least 2 bytes sets the code page; the EOF record
\* ends the loop once a BOUNDSHEET record was met; no BOUNDSHEET is an error.
RECURSIVE GlobalsFrom(_, _, _, _)
GlobalsFrom(records, i, code_page, sheets) ==
    IF i > Len(records) THEN (IF sheets = 0 THEN [ok |-> FALSE, val |-> None] ELSE Ok(code_page))
    ELSE IF records[i].id = 133 /\ records[i].len >= 8
    THEN GlobalsFrom(records, i + 1, code_page, sheets + 1)
    ELSE IF records[i].id = 66 /\ records[i].len >= 2
    THEN GlobalsFrom(records, i + 1, Some(records[i].cp), sheets)
    ELSE IF records[i].id = BiffEof /\ sheets > 0 THEN Ok(code_page)
    ELSE GlobalsFrom(records, i + 1, code_page, sheets)

parse_biff_globals(records) ==
    GlobalsFrom(records, 1, detect_biff_code_page(records, 1), 0)

GlobalsRecords ==
    {[id |-> 66, len |-> 2, cp |-> 949], [id |-> 66, len |-> 2, cp |-> 1252],
     [id |-> 66, len |-> 0, cp |-> 0], [id |-> 66, len |-> 2, cp |-> 65001],
     [id |-> 133, len |-> 8, cp |-> 0], [id |-> BiffEof, len |-> 0, cp |-> 0]}
GlobalsStreams ==
    {<<a, [id |-> 133, len |-> 8, cp |-> 0], b>> : a \in GlobalsRecords, b \in GlobalsRecords}
        \cup {<<a>> : a \in GlobalsRecords}
LabelTexts ==
    {<<>>} \cup {<<a>> : a \in TextBytes} \cup {<<a, b>> : a \in TextBytes, b \in TextBytes}
        \cup {<<49, 176, 161>>, <<176, 161, 176>>}
DecodeEnvs == [windows : BOOLEAN, decoder : BOOLEAN, strict : BOOLEAN]

InitDecode ==
    /\ pc = "decode_ready"
    /\ CoreIdle
    /\ OthersIdle("call")
    /\ \E records \in GlobalsStreams : \E bytes \in LabelTexts : \E env \in DecodeEnvs :
           call = [records |-> records, bytes |-> bytes, env |-> env,
                   globals |-> [ok |-> FALSE, val |-> None], text |-> SourceError]

\* The globals pass.
ParseGlobals ==
    /\ pc = "decode_ready"
    /\ pc' = "decode_globals"
    /\ call' = [call EXCEPT !.globals = parse_biff_globals(call.records)]
    /\ UNCHANGED core_vars
    /\ OthersUnchanged("call")

\* The single-byte text of a label or shared string of a sheet.
DecodeLabel ==
    /\ pc = "decode_globals"
    /\ call.globals.ok
    /\ pc' = "decode_done"
    /\ call' = [call EXCEPT !.text = decode_single_byte_text(call.bytes, call.globals.val, call.env)]
    /\ UNCHANGED core_vars
    /\ OthersUnchanged("call")

NextDecode == ParseGlobals \/ DecodeLabel

SpecDecode == InitDecode /\ [][NextDecode]_vars

\* ------------------------------------------- RK numbers

\* The width of an RK value, scaled down from 32 bits.
RkWidth == 8

Pow2(n) == 2^n

\* A decoded number is [form, num, den]: num / den of an integer, or the
\* float whose upper bits are num, over den.
\* Fault variant: the shift does not keep the sign.
decode_rk_unsigned(rk) ==
    [form |-> IF (rk \div 2) % 2 = 1 THEN "int" ELSE "bits",
     num |-> IF (rk \div 2) % 2 = 1 THEN rk \div 4 ELSE rk - (rk % 4),
     den |-> IF rk % 2 = 1 THEN 100 ELSE 1]

\* decode_rk_number: bit 0 is the division by 100, bit 1 the integer form;
\* rk.cast_signed() >> 2 keeps the upper bits and repeats the sign bit, the
\* float form takes the bits without the two flags as the upper half of a f64.
decode_rk_number(rk) ==
    [form |-> IF (rk \div 2) % 2 = 1 THEN "int" ELSE "bits",
     num |-> IF (rk \div 2) % 2 = 1
             THEN (IF rk >= Pow2(RkWidth - 1) THEN (rk \div 4) - Pow2(RkWidth - 2) ELSE rk \div 4)
             ELSE rk - (rk % 4),
     den |-> IF rk % 2 = 1 THEN 100 ELSE 1]

InitRk ==
    /\ pc = "rk_ready"
    /\ CoreIdle
    /\ OthersIdle("call")
    /\ \E rk \in 0..(Pow2(RkWidth) - 1) : call = [rk |-> rk, value |-> [form |-> "bits", num |-> 0, den |-> 1]]

DecodeRk ==
    /\ pc = "rk_ready"
    /\ pc' = "rk_done"
    /\ call' = [call EXCEPT !.value = decode_rk_number(call.rk)]
    /\ UNCHANGED core_vars
    /\ OthersUnchanged("call")

NextRk == DecodeRk

SpecRk == InitRk /\ [][NextRk]_vars

\* ------------------------------------------- saving the workbook

\* saver is [prev, dest, tmp, archive, verify, windows, strict, at, failed,
\* result]: the content of the destination before the call and now, of the
\* temporary output file and of the archive in the work directory (a file is
\* "absent", "empty", "partial", or holds the "old" or the "new" workbook),
\* the arguments and the build, the step the call is at, the step that
\* failed, and what the call returned ("none" while it runs).
SaveReturned(c, res) == [c EXCEPT !.at = "returned", !.result = res]
SaveFailed(c, step) == [c EXCEPT !.at = "cleanup", !.failed = step]

\* create_archive: an archive that is there is removed, then written anew.
create_archive(c, ok) ==
    IF ok THEN [c EXCEPT !.archive = "new", !.at = "dir"]
    ELSE SaveReturned([c EXCEPT !.archive = "partial", !.failed = "archive"], "err")

\* create_unique_temp_output_path: a new empty file beside the destination.
create_unique_temp_output_path(c, ok) ==
    IF ok THEN [c EXCEPT !.tmp = "empty", !.at = "copy"]
    ELSE SaveReturned([c EXCEPT !.failed = "temp"], "err")

\* Fault variant: the archive is copied over the destination itself.
copy_archive_in_place(c, ok) ==
    IF ok THEN [c EXCEPT !.dest = c.archive, !.at = "verify"]
    ELSE SaveFailed([c EXCEPT !.dest = "partial"], "copy")

\* fs::copy of the archive to the temporary output file.
copy_archive(c, ok) ==
    IF ok THEN [c EXCEPT !.tmp = c.archive, !.at = "verify"]
    ELSE SaveFailed([c EXCEPT !.tmp = "partial"], "copy")

\* promote_temp_output: the rename (ReplaceFileW or MoveFileExW in the
\* Windows build) puts the temporary file in the place of the destination
\* in one step or fails; the other build then syncs the file and its folder,
\* and a failed sync is an error in the strict mode only.
promote_temp_output(c, ok) ==
    IF c.at = "promote"
    THEN (IF ~ok THEN SaveFailed(c, "promote")
          ELSE [c EXCEPT !.dest = c.tmp, !.tmp = "absent",
                         !.at = IF c.windows THEN "done" ELSE "sync_file"])
    ELSE IF ~ok /\ c.strict THEN SaveFailed(c, c.at)
    ELSE [c EXCEPT !.at = IF c.at = "sync_file" THEN "sync_dir" ELSE "done"]

\* One step of save_as; ok tells whether the system call of the step
\* succeeds. The closure ends at "done"; after an error of the closure the
\* temporary file is removed.
save_as_step(c, ok) ==
    IF c.at = "tools"
    THEN (IF ok THEN [c EXCEPT !.at = "archive"] ELSE SaveReturned([c EXCEPT !.failed = "tools"], "err"))
    ELSE IF c.at = "archive" THEN create_archive(c, ok)
    ELSE IF c.at = "dir"
    THEN (IF ok THEN [c EXCEPT !.at = "temp"] ELSE SaveReturned([c EXCEPT !.failed = "dir"], "err"))
    ELSE IF c.at = "temp" THEN create_unique_temp_output_path(c, ok)
    ELSE IF c.at = "copy" THEN copy_archive(c, ok)
    ELSE IF c.at = "verify"
    THEN (IF ok \/ ~c.verify THEN [c EXCEPT !.at = "promote"] ELSE SaveFailed(c, "verify"))
    ELSE IF c.at \in {"promote", "sync_file", "sync_dir"} THEN promote_temp_output(c, ok)
    ELSE IF c.at = "cleanup" THEN SaveReturned([c EXCEPT !.tmp = "absent"], "err")
    ELSE SaveReturned(c, "ok")

InitSave ==
    /\ pc = "save"
    /\ CoreIdle
    /\ OthersIdle("saver")
    /\ \E prev \in {"absent", "old"} : \E verify \in BOOLEAN : \E windows \in BOOLEAN :
       \E strict \in BOOLEAN :
           saver = [prev |-> prev, dest |-> prev, tmp |-> "absent", archive |-> "old",
                    verify |-> verify, windows |-> windows, strict |-> strict,
                    at |-> "tools", failed |-> "none", result |-> "none"]

SaveAsStep ==
    /\ pc = "save"
    /\ saver.at # "returned"
    /\ \E ok \in BOOLEAN : saver' = save_as_step(saver, ok)
    /\ UNCHANGED <<pc, core_vars>>
    /\ OthersUnchanged("saver")

NextSave == SaveAsStep

SpecSave == InitSave /\ [][NextSave]_vars

\* ------------------------------------------- reserving an output path

\* MAX_CONFLICT_ATTEMPTS scaled down: the candidates are the requested path
\* (suffix 0) and the paths with the suffixes 1..MAX_CONFLICT_ATTEMPTS.
MAX_CONFLICT_ATTEMPTS == 2

\* A file of the folder: absent, or [content, stale] with the content
\* "magic" (RESERVATION_MAGIC), "empty" or "other", and whether it was
\* modified more than STALE_RESERVATION_AGE ago.
Absent == [content |-> "absent", stale |-> FALSE]
Marker(stale) == [content |-> "magic", stale |-> stale]
RunIds == {1, 2}

RunAt(r, run, at) == [r EXCEPT !.runs[run].at = at]
RunReturned(r, run, res) == [r EXCEPT !.runs[run].at = "returned", !.runs[run].result = res]

\* The arm of reserve_nonconflicting_path for a candidate that could not be
\* replaced: the next suffix, an error after MAX_CONFLICT_ATTEMPTS.
NextCandidate(r, run) ==
    IF r.runs[run].seq + 1 > MAX_CONFLICT_ATTEMPTS THEN RunReturned(r, run, "err")
    ELSE [r EXCEPT !.runs[run].seq = r.runs[run].seq + 1, !.runs[run].at = "open"]

\* try_remove_stale_reservation, one system call at a time: fs::metadata and
\* the age of the file ("stat"), fs::read and the comparison with the magic
\* ("read"), fs::remove_file ("remove"). True lets the caller try the same
\* candidate again.
try_remove_stale_reservation(r, run, seq) ==
    IF r.runs[run].at = "stat"
    THEN (IF r.files[seq].content = "absent" \/ ~r.files[seq].stale THEN NextCandidate(r, run)
          ELSE RunAt(r, run, "read"))
    ELSE IF r.runs[run].at = "read"
    THEN (IF r.files[seq].content # "magic" THEN NextCandidate(r, run)
          ELSE RunAt(r, run, "remove"))
    ELSE IF r.files[seq].content = "absent" THEN NextCandidate(r, run)
    ELSE RunAt([r EXCEPT !.files[seq] = Absent], run, "open")

\* One system call of reserve_nonconflicting_path by one run: create_new on
\* the candidate ("open"), the write of the marker ("write", ok tells whether
\* it succeeds; a failed write removes the file), or a call of
\* try_remove_stale_reservation.
reserve_nonconflicting_path(r, run, seq, ok) ==
    IF r.runs[run].at = "open"
    THEN (IF r.files[seq].content = "absent"
          THEN RunAt([r EXCEPT !.files[seq] = [content |-> "empty", stale |-> FALSE]], run, "write")
          ELSE RunAt(r, run, "stat"))
    ELSE IF r.runs[run].at = "write"
    THEN (IF ok THEN RunReturned([r EXCEPT !.files[seq] = Marker(FALSE)], run, "ok")
          ELSE RunReturned([r EXCEPT !.files[seq] = Absent], run, "err"))
    ELSE try_remove_stale_reservation(r, run, seq)

FolderFiles == {Absent, Marker(TRUE), Marker(FALSE), [content |-> "other", stale |-> TRUE]}

InitReserve ==
    /\ pc = "reserve"
    /\ CoreIdle
    /\ OthersIdle("reserve")
    /\ \E files \in [0..MAX_CONFLICT_ATTEMPTS -> FolderFiles] :
           reserve = [initial |-> files, files |-> files,
                      runs |-> [run \in RunIds |-> [at |-> "open", seq |-> 0, result |-> "none"]]]

ReserveStep ==
    /\ pc = "reserve"
    /\ \E run \in RunIds : \E ok \in BOOLEAN :
           /\ reserve.runs[run].at # "returned"
           /\ reserve' = reserve_nonconflicting_path(reserve, run, reserve.runs[run].seq, ok)
    /\ UNCHANGED <<pc, core_vars>>
    /\ OthersUnchanged("reserve")

NextReserve == ReserveStep

SpecReserve == InitReserve /\ [][NextReserve]_vars

\* ------------------------------------------- the change record on its own

\* Pairs of an old and an authoritative value of each field: equal, equal
\* after the normalisation of the field, and different.
NamePairs == {<<<<"A">>, <<"A">>>>, <<<<"A">>, <<" ", "A">>>>, <<<<"A">>, <<"B">>>>}
BrandPairs == {<<<<"b">>, <<"b">>>>, <<<<>>, <<" ">>>>, <<<<"b">>, <<>>>>}
SelfYnPairs ==
    {<<<<"Y">>, <<"Y">>>>, <<<<"Y", "N">>, <<"Y", " ", "N">>>>, <<<<"Y", "N">>, <<"Y", "\t", "N">>>>,
     <<<<"Y">>, <<"N">>>>}
AddressPairs ==
    {<<<<"x", "1">>, <<"x", "1">>>>, <<<<"x", "1">>, <<"x", " ", "(", "1", ")">>>>,
     <<<<"x", "1">>, <<"y">>>>}
PhonePairs ==
    {<<<<"1", "-", "2">>, <<"1", "2">>>>, <<<<"1", "2">>, <<"1", "3">>>>, <<<<"-">>, <<" ", "-">>>>,
     <<<<"-">>, <<"+">>>>, <<<<>>, <<"1">>>>}
PricePairs == {<<Some(1), Some(1)>>, <<Some(1), Some(2)>>, <<None, Some(1)>>}
FewPricePairs == {<<None, None>>, <<Some(1), None>>}

InitChange ==
    /\ pc = "change_ready"
    /\ CoreIdle
    /\ OthersIdle("call")
    /\ \E n \in NamePairs : \E b \in BrandPairs : \E y \in SelfYnPairs : \E a \in AddressPairs :
       \E p \in PhonePairs : \E g \in PricePairs : \E pr \in FewPricePairs : \E d \in FewPricePairs :
           call = [old |-> Rec(<<"N">>, n[1], b[1], y[1], a[1], p[1], g[1], pr[1], d[1]),
                   src |-> Rec(<<"M">>, n[2], b[2], y[2], a[2], p[2], g[2], pr[2], d[2]),
                   change |-> None]

BuildChangeRow ==
    /\ pc = "change_ready"
    /\ pc' = "change_done"
    /\ call' = [call EXCEPT !.change = build_change_row_if_needed(call.old, call.src)]
    /\ UNCHANGED core_vars
    /\ OthersUnchanged("call")

NextChange == BuildChangeRow

SpecChange == InitChange /\ [][NextChange]_vars

\* ------------------------------------------------ the setters of one cell

\* What set_formula_at does to inner_xml: the text of an <f> already there is
\* replaced and its <v> kept; any other content, or none, becomes <f>..</f><v></v>.
FormulaInner(inner, formula_text) ==
    IF extract_first_f(inner).some
    THEN [inner EXCEPT !.body = xml_escape_text(formula_text)]
    ELSE Formula(xml_escape_text(formula_text), <<>>)

\* What set_formula_at does to the cell: the attributes are left as they are.
FormulaCellOf(cell, formula_text) == [cell EXCEPT !.inner = FormulaInner(cell.inner, formula_text)]

\* Variant of set_formula_at on the cell that also removes the t attribute.
FormulaCellUntyped(cell, formula_text) == [cell EXCEPT !.t = "", !.inner = FormulaInner(cell.inner, formula_text)]

set_formula_at(rows, col, row, formula_text) ==
    PutCells(rows, row, RowOrNew(rows, row),
             col :> FormulaCellOf(CellOrNew(RowOrNew(rows, row), col, row), formula_text))

clear_cell_if_exists(rows, col, row) ==
    IF row \notin DOMAIN rows THEN rows
    ELSE IF col \notin DOMAIN rows[row].cells THEN rows
    ELSE PutCells(rows, row, rows[row],
                  col :> [rows[row].cells[col] EXCEPT !.t = "", !.inner = NoInner])

\* The number of setter calls applied to the cell.
MaxSetterCalls == 3

\* The sheets the calls start from: no row, or a row with one cell at B1 as
\* the reader leaves it (number, shared string, inline string, formula).
StartCells ==
    {MkCell(1, "2", "", Value(<<"7">>)), MkCell(1, "2", "s", Value(<<"1">>)),
     MkCell(1, "2", "inlineStr", InlineStr(<<"a">>, FALSE)), MkCell(1, "3", "", Formula(<<"A", "1">>, <<"0">>)),
     MkCell(1, "2", "", NoInner)}
StartSheets == {EmptyMap} \cup {Table(1 :> MkRow(1, "", Table(2 :> c))) : c \in StartCells}

SetterStrings == {<<>>, <<"a">>, <<" ", "a">>, <<"<">>}
SetterNumbers == {None, Some(0), Some(7)}
SetterFormulas == {<<"A", "1">>, <<"B", "1", "<", "2">>}

InitCell ==
    /\ pc = "cell"
    /\ CoreIdle
    /\ OthersIdle("call")
    /\ \E rows \in StartSheets : call = [rows |-> rows, last |-> "", calls |-> 0]

SetStringAt ==
    /\ pc = "cell" /\ call.calls < MaxSetterCalls
    /\ \E value \in SetterStrings :
           call' = [rows |-> set_string_at(call.rows, 2, 1, value), last |-> "string", calls |-> call.calls + 1]
    /\ UNCHANGED <<pc, core_vars>>
    /\ OthersUnchanged("call")

SetI32At ==
    /\ pc = "cell" /\ call.calls < MaxSetterCalls
    /\ \E value \in SetterNumbers :
           call' = [rows |-> set_i32_at(call.rows, 2, 1, value), last |-> "i32", calls |-> call.calls + 1]
    /\ UNCHANGED <<pc, core_vars>>
    /\ OthersUnchanged("call")

SetFormulaAt ==
    /\ pc = "cell" /\ call.calls < MaxSetterCalls
    /\ \E value \in SetterFormulas :
           call' = [rows |-> set_formula_at(call.rows, 2, 1, value), last |-> "formula", calls |-> call.calls + 1]
    /\ UNCHANGED <<pc, core_vars>>
    /\ OthersUnchanged("call")

ClearCellIfExists ==
    /\ pc = "cell" /\ call.calls < MaxSetterCalls
    /\ call' = [rows |-> clear_cell_if_exists(call.rows, 2, 1), last |-> "clear", calls |-> call.calls + 1]
    /\ UNCHANGED <<pc, core_vars>>
    /\ OthersUnchanged("call")

NextCell == SetStringAt \/ SetI32At \/ SetFormulaAt \/ ClearCellIfExists

SpecCell == InitCell /\ [][NextCell]_vars

\* ------------------------------------------------ the CP949 decode cache

\* CP949_CACHE_MAX_BYTES is 8 MiB in the source; scaled down here.
CP949_CACHE_MAX_BYTES == 6

\* usize::saturating_sub
saturating_sub(a, b) == IF a >= b THEN a - b ELSE 0

\* Cp949DecodeCache::default(), and the cache after the three clear statements.
EmptyCache == [map |-> EmptyMap, order |-> <<>>, total_bytes |-> 0]

\* HashMap::remove
MapRemove(map, key) == [k \in DOMAIN map \ {key} |-> map[k]]

\* VecDeque::retain(|k| k != bytes)
Retain(order, bytes) == SelectSeq(order, LAMBDA k : k # bytes)

\* Variant of RemovePrev that leaves the key in the eviction queue.
RemovePrevKeepQueued(c, bytes) ==
    IF bytes \in DOMAIN c.map
    THEN [map |-> MapRemove(c.map, bytes), order |-> c.order,
          total_bytes |-> saturating_sub(c.total_bytes, Len(bytes) + Len(c.map[bytes]))]
    ELSE c

\* The entry stored before under the same key is taken out: map.remove, the
\* subtraction from total_bytes, order.retain.
RemovePrev(c, bytes) ==
    IF bytes \in DOMAIN c.map
    THEN [map |-> MapRemove(c.map, bytes), order |-> Retain(c.order, bytes),
          total_bytes |-> saturating_sub(c.total_bytes, Len(bytes) + Len(c.map[bytes]))]
    ELSE c

\* One iteration of the eviction loop: order.pop_front and map.remove.
EvictFront(c) ==
    LET evict_key == Head(c.order)
    IN  IF evict_key \in DOMAIN c.map
        THEN [map |-> MapRemove(c.map, evict_key), order |-> Tail(c.order),
              total_bytes |-> saturating_sub(c.total_bytes, Len(evict_key) + Len(c.map[evict_key]))]
        ELSE [c EXCEPT !.order = Tail(c.order)]

\* The eviction loop.
RECURSIVE EvictLoop(_, _)
EvictLoop(c, entry_size) ==
    IF c.total_bytes + entry_size > CP949_CACHE_MAX_BYTES /\ c.order # <<>>
    THEN EvictLoop(EvictFront(c), entry_size)
    ELSE c

\* The end of cp949_cache_put: the cache is cleared when the entry still does
\* not fit, then the entry is counted, queued and stored.
StoreEntry(c, bytes, decoded, entry_size) ==
    LET base == IF c.total_bytes + entry_size > CP949_CACHE_MAX_BYTES THEN EmptyCache ELSE c
    IN  [map |-> MapPut(base.map, bytes, decoded), order |-> Append(base.order, bytes),
         total_bytes |-> base.total_bytes + entry_size]

\* cp949_cache_put on the cache c, the whole body under the lock.
cp949_cache_put(c, bytes, decoded) ==
    IF Len(bytes) + Len(decoded) > CP949_CACHE_MAX_BYTES THEN EmptyCache
    ELSE StoreEntry(EvictLoop(RemovePrev(c, bytes), Len(bytes) + Len(decoded)),
                    bytes, decoded, Len(bytes) + Len(decoded))

\* cp949_cache_get
cp949_cache_get(c, bytes) == IF bytes \in DOMAIN c.map THEN Some(c.map[bytes]) ELSE None

\* The callers, the keys and the decoded texts they bring.
CacheCallers == {1, 2}
CacheKeys == {<<176>>, <<161>>, <<176, 161>>, <<176, 161, 176>>}
CacheTexts == {<<"ga">>, <<"ga", "na">>, <<"ga", "na", "da", "ra">>}
NoPut == [some |-> FALSE, bytes |-> <<>>, decoded |-> <<>>]

InitCache ==
    /\ pc = "cache"
    /\ CoreIdle
    /\ OthersIdle("cache")
    /\ cache = [store |-> EmptyCache, pending |-> [t \in CacheCallers |-> NoPut]]

\* decode_cp949_non_windows up to its call of cp949_cache_put: the cache has
\* no entry for the bytes and a decoder returns the text.
DecodeCp949(t) ==
    /\ pc = "cache"
    /\ ~cache.pending[t].some
    /\ \E bytes \in CacheKeys : \E decoded \in CacheTexts :
         /\ ~cp949_cache_get(cache.store, bytes).some
         /\ cache' = [cache EXCEPT !.pending[t] = [some |-> TRUE, bytes |-> bytes, decoded |-> decoded]]
    /\ UNCHANGED <<pc, core_vars>>
    /\ OthersUnchanged("cache")

\* cp949_cache_put by caller t: the lock is held from the first statement to
\* the last.
Cp949CachePut(t) ==
    /\ pc = "cache"
    /\ cache.pending[t].some
    /\ cache' = [store |-> cp949_cache_put(cache.store, cache.pending[t].bytes, cache.pending[t].decoded),
                 pending |-> [cache.pending EXCEPT ![t] = NoPut]]
    /\ UNCHANGED <<pc, core_vars>>
    /\ OthersUnchanged("cache")

NextCache == \E t \in CacheCallers : DecodeCp949(t) \/ Cp949CachePut(t)

SpecCache == InitCache /\ [][NextCache]_vars

\* ---------------------------------- properties of a reconciliation run

\* The first call returned Ok.
Succeeded == pc = "ran1" /\ result.ok

\* The band the latest call worked on (the rows it collected) and its first row.
BandRows == {result.old_rows[i] : i \in 1..Len(result.old_rows)}
DataStart == result.header_row + 1

AddressAt(rows, r) == Trim(get_display_at(rows, 6, r))
KeyAt(rows, r) == normalize_address_key(AddressAt(rows, r))

\* The band rows with an address, those among them the index does not list, the
\* band rows that stay (in their original order), the index keys no band row has.
AddressedRows == {r \in BandRows : AddressAt(rows_before, r) # <<>>}
GoneRows == {r \in AddressedRows : KeyAt(rows_before, r) \notin DOMAIN source_index}
StayingRows == SortedRows(BandRows \ GoneRows)
UnmatchedKeys == DOMAIN source_index \ {KeyAt(rows_before, r) : r \in AddressedRows}

\* The StoreRow of a sheet row and of a record.
StoreRowAt(rows, r) ==
    [region |-> Trim(get_display_at(rows, 2, r)), name |-> Trim(get_display_at(rows, 3, r)),
     address |-> AddressAt(rows, r), gasoline |-> get_i32_at(rows, 8, r),
     premium |-> get_i32_at(rows, 9, r), diesel |-> get_i32_at(rows, 11, r)]
StoreRowOf(src) ==
    [region |-> src.region, name |-> src.name, address |-> src.address,
     gasoline |-> src.gasoline, premium |-> src.premium, diesel |-> src.diesel]

\* C1: after a successful update_master_sheet, the deleted list is the snapshot
\* (region, name, address, three prices, read from the sheet as it was before the
\* call) of exactly the band rows with a non-blank address whose normalized key is
\* not in the index, every other band row is kept, and the added list holds
\* exactly the records of the index whose key no band row has.
C1_Classification ==
    Succeeded =>
        /\ result.deleted = [i \in 1..Cardinality(GoneRows) |->
                                StoreRowAt(rows_before, SortedRows(GoneRows)[i])]
        /\ result.row_mapper.deleted_rows = SortedRows(GoneRows)
        /\ {result.added[j] : j \in 1..Len(result.added)}
               = {StoreRowOf(source_index[k]) : k \in UnmatchedKeys}
        /\ Len(result.added) = Cardinality(UnmatchedKeys)

\* A run with a deleted row, a kept row matched by a record, and an added record.
C1_Witness ==
    /\ Succeeded
    /\ GoneRows # {}
    /\ AddressedRows \ GoneRows # {}
    /\ Len(result.added) > 0

\* Row new_r of the sheet after the call holds the station of row old_r before it.
SameStation(old_r, new_r) ==
    /\ KeyAt(ws_rows, new_r) = KeyAt(rows_before, old_r)
    /\ AddressAt(rows_before, old_r) = <<>> =>
           Trim(get_display_at(ws_rows, 3, new_r)) = Trim(get_display_at(rows_before, 3, old_r))

\* a comes before b in (region, name, address) order.
RegionNameAddressBefore(a, b) ==
    \/ StrCmp(a.region, b.region) < 0
    \/ StrCmp(a.region, b.region) = 0 /\ StrCmp(a.name, b.name) < 0
    \/ StrCmp(a.region, b.region) = 0 /\ StrCmp(a.name, b.name) = 0
           /\ StrCmp(a.address, b.address) < 0

\* C2: after a successful update_master_sheet the data band is exactly the rows
\* data_start_row .. data_start_row + kept + added - 1; the kept rows come first
\* in their original order, then the added rows in the order of the returned
\* added list, which ascends by (region, name, address).
C2_BandLayout ==
    Succeeded =>
        /\ collect_master_data_rows(ws_rows, DataStart)
               = [i \in 1..(Len(StayingRows) + Len(result.added)) |-> DataStart + (i - 1)]
        /\ \A i \in 1..Len(StayingRows) : SameStation(StayingRows[i], DataStart + (i - 1))
        /\ \A j \in 1..Len(result.added) :
               /\ AddressAt(ws_rows, DataStart + Len(StayingRows) + (j - 1))
                      = Trim(result.added[j].address)
               /\ Trim(get_display_at(ws_rows, 3, DataStart + Len(StayingRows) + (j - 1)))
                      = Trim(result.added[j].name)
        /\ \A j \in 1..(Len(result.added) - 1) :
               RegionNameAddressBefore(result.added[j], result.added[j + 1])

\* A run that moves a kept row up to its packed slot and appends two records.
C2_Witness ==
    /\ Succeeded
    /\ Len(StayingRows) > 0
    /\ StayingRows[Len(StayingRows)] # DataStart + (Len(StayingRows) - 1)
    /\ Len(result.added) >= 2

\* What get_display_at / get_i32_at read back from a row, and the same of a record.
ReadBack(rows, r) ==
    [name |-> get_display_at(rows, 3, r), brand |-> get_display_at(rows, 4, r),
     self_yn |-> get_display_at(rows, 5, r), address |-> get_display_at(rows, 6, r),
     phone |-> get_display_at(rows, 7, r), gasoline |-> get_i32_at(rows, 8, r),
     premium |-> get_i32_at(rows, 9, r), diesel |-> get_i32_at(rows, 11, r)]
FieldsOf(src) ==
    [name |-> src.name, brand |-> src.brand, self_yn |-> src.self_yn,
     address |-> src.address, phone |-> src.phone, gasoline |-> src.gasoline,
     premium |-> src.premium, diesel |-> src.diesel]

\* The positions of StayingRows whose row matched a record of the index.
MatchedStaying == {i \in 1..Len(StayingRows) : StayingRows[i] \in AddressedRows}

\* C3: after a successful update_master_sheet, every kept row that matched a
\* record and every added row reads back, through get_display_at and get_i32_at,
\* the name, brand, self-service flag, address, phone and three prices of its record.
C3_FieldsReadBack ==
    Succeeded =>
        /\ \A i \in MatchedStaying :
               ReadBack(ws_rows, DataStart + (i - 1))
                   = FieldsOf(source_index[KeyAt(rows_before, StayingRows[i])])
        /\ \A j \in 1..Len(result.added) :
               ReadBack(ws_rows, DataStart + Len(StayingRows) + (j - 1))
                   = FieldsOf(source_index[normalize_address_key(result.added[j].address)])

\* A run that rewrites a kept row whose fields differed and writes an added row.
C3_Witness ==
    /\ Succeeded
    /\ Len(result.changes) > 0
    /\ Len(result.added) > 0
    /\ \E i \in MatchedStaying :
           ReadBack(rows_before, StayingRows[i]) # ReadBack(ws_rows, DataStart + (i - 1))

\* C4: a second update_master_sheet with the same index, on the worksheet the
\* first call produced, succeeds with no changes, no added and no deleted
\* entries, and leaves the rows as they were.
C4_Idempotent ==
    pc = "ran2" =>
        /\ result.ok
        /\ result.changes = <<>>
        /\ result.added = <<>>
        /\ result.deleted = <<>>
        /\ ws_rows = rows_before

\* A second run after a first run that changed, added and deleted rows.
C4_Witness ==
    /\ pc = "ran2"
    /\ Len(first_result.changes) > 0
    /\ Len(first_result.added) > 0
    /\ Len(first_result.deleted) > 0

\* The last row of the old band (data_start_row - 1 when there is no band).
OldEnd == IF BandRows = {} THEN DataStart - 1 ELSE MaxOf(BandRows)
FinalLength == Len(StayingRows) + Len(result.added)

TitleColumnOf(r) == 12 + (r - result.header_row)

\* C6: the row mapper agrees with the placement: for every kept row moved from
\* old row r to packed slot s, RowMapper.map(r) = s and the formula of another
\* row that referred to r refers to s afterwards, whatever the shape of the band.
C6_MapperAgreesWithPlacement ==
    Succeeded =>
        \A i \in 1..Len(StayingRows) :
            /\ RowMapperMap(result.row_mapper, StayingRows[i]) = DataStart + (i - 1)
            /\ (1 \in DOMAIN ws_rows /\ TitleColumnOf(StayingRows[i]) \in DOMAIN ws_rows[1].cells) =>
                   ws_rows[1].cells[TitleColumnOf(StayingRows[i])].inner.body
                       = <<"=", "F">> \o FormatNat(DataStart + (i - 1))

\* C9: whenever update_master_sheet returns an error, the row map of the
\* worksheet is the row map from before the call.
C9_ErrorLeavesRows ==
    (pc \in {"ran1", "ran2"} /\ ~result.ok) => ws_rows = rows_before

\* The rows at or below data_start_row whose identity columns are blank.
BlankIdentityRows ==
    {r \in DOMAIN rows_before : r >= DataStart /\ IdentityBlank(rows_before, r)}

\* Row b holds the cells of row a, apart from renumbering (row numbers, cell
\* references, the row numbers inside formulas).
SameContents(a, b) ==
    /\ a.attrs = b.attrs
    /\ DOMAIN a.cells = DOMAIN b.cells
    /\ \A c \in DOMAIN a.cells :
           /\ a.cells[c].s = b.cells[c].s
           /\ a.cells[c].t = b.cells[c].t
           /\ a.cells[c].inner.kind = b.cells[c].inner.kind
           /\ a.cells[c].inner.kind # "f" => a.cells[c].inner = b.cells[c].inner

\* C10: a row of the band area whose identity columns are blank is not matched
\* against the index, yields no changed or deleted entry, and is present in the
\* sheet after the call with its cells unmodified apart from renumbering.
C10_BlankRowsPassThrough ==
    Succeeded =>
        \A r \in BlankIdentityRows :
            /\ r \notin BandRows
            /\ \E t \in DOMAIN ws_rows : SameContents(rows_before[r], ws_rows[t])

\* The slot of the j-th added record, and the record written to it.
AddedSlot(j) == DataStart + Len(StayingRows) + (j - 1)
AddedRecord(j) == source_index[normalize_address_key(result.added[j].address)]

\* The columns write_master_row_from_source and the region back-fill write.
RecordColumns == {2, 3, 4, 5, 6, 7, 8, 9, 11}

\* C11: an added row inherits no data from the template row: every cell of an
\* added row outside the columns written from the record is blank when it is not
\* a formula cell, and has a blank cached value when it is a formula cell.
C11_AddedRowsInheritNoData ==
    Succeeded =>
        \A j \in 1..Len(result.added) :
            \A c \in DOMAIN ws_rows[AddedSlot(j)].cells \ RecordColumns :
                IF ws_rows[AddedSlot(j)].cells[c].inner.kind = "f"
                THEN ws_rows[AddedSlot(j)].cells[c].inner.v = <<>>
                ELSE Trim(get_display_at(ws_rows, c, AddedSlot(j))) = <<>>

\* C11, for the cells that are not formula cells.
C11_NoInheritedText ==
    Succeeded =>
        \A j \in 1..Len(result.added) :
            \A c \in DOMAIN ws_rows[AddedSlot(j)].cells \ RecordColumns :
                ws_rows[AddedSlot(j)].cells[c].inner.kind # "f"
                    => Trim(get_display_at(ws_rows, c, AddedSlot(j))) = <<>>

\* C12: the region cell of a kept row reads after the run as it read before, and
\* the region cell of an added row whose record has a non-blank region reads as
\* the record's region.
C12_RegionBackFill ==
    Succeeded =>
        /\ \A i \in 1..Len(StayingRows) :
               get_display_at(ws_rows, 2, DataStart + (i - 1))
                   = get_display_at(rows_before, 2, StayingRows[i])
        /\ \A j \in 1..Len(result.added) :
               Trim(AddedRecord(j).region) # <<>>
                   => get_display_at(ws_rows, 2, AddedSlot(j)) = AddedRecord(j).region

\* C12, for the kept rows alone.
C12_KeptRegionUnchanged ==
    Succeeded =>
        \A i \in 1..Len(StayingRows) :
            get_display_at(ws_rows, 2, DataStart + (i - 1))
                = get_display_at(rows_before, 2, StayingRows[i])

\* The last row of the band after the run.
NewEnd == DataStart + FinalLength - 1

\* The content of the filter name of the master sheet: $A$<data_start_row> to
\* $<column>$<the new band end row>, for some column.
SpansBand(content) ==
    \E col \in 1..16 :
        content = MasterSheetName \o <<"!", "$", "A", "$">> \o FormatNat(DataStart)
                      \o <<":", "$">> \o col_to_name(col) \o <<"$">> \o FormatNat(NewEnd)

\* C17: after a successful reconciliation that leaves a band, the
\* _xlnm._FilterDatabase defined name of the master sheet spans
\* $A$<data_start_row> to $<end col>$<new band end row>, and every
\* conditional-formatting range of the master sheet that ended at the old band
\* end row ends at the new band end row.
C17_LayoutFinalized ==
    (Succeeded /\ FinalLength > 0) =>
        /\ SpansBand(workbook_xml[3].content)
        /\ \A i \in 1..Len(BandFormats(rows_before)) :
               (BandRows # {} /\ BandFormats(rows_before)[i].last_row = OldEnd)
                   => ws_suffix[i].last_row = NewEnd

\* The defined names alone: the filter name of the master sheet spans the
\* band, the other names are as they were.
C17_FilterNameSpansBand ==
    (Succeeded /\ FinalLength > 0) =>
        /\ SpansBand(workbook_xml[3].content)
        /\ workbook_xml[1] = DefinedNames[1]
        /\ workbook_xml[2] = DefinedNames[2]

\* The conditional-formatting ranges are what they were before the run.
C17_FormatsLeftAlone ==
    pc = "ran1" => ws_suffix = BandFormats(rows_before)

\* ------------------------------------------- properties of the rewriter

Letters == UpperLetters \cup LowerLetters
\* The characters that may not touch a cell reference on either side.
WordChars == Letters \cup DigitChars \cup {"_", "."}

\* Position i of f lies inside a string literal: an odd number of quotes precede
\* it (an escaped quote "" counts twice).
InsideString(f, i) == Cardinality({j \in 1..(i - 1) : f[j] = "\""}) % 2 = 1

\* The cell references of f that start at position a (none or one): an optional
\* '$', letters, an optional '$', digits that fit a u32, no word character on
\* either side, outside every string literal.
ReferencesAt(f, a) ==
    {ref \in [col_from : {a, a + 1}, col_to : a..Len(f), row_from : a..Len(f), row_to : a..Len(f)] :
        /\ ref.col_from = (IF f[a] = "$" THEN a + 1 ELSE a)
        /\ ref.col_from <= ref.col_to
        /\ \A j \in ref.col_from..ref.col_to : f[j] \in Letters
        /\ ref.col_to < Len(f)
        /\ ref.row_from = (IF f[ref.col_to + 1] = "$" THEN ref.col_to + 2 ELSE ref.col_to + 1)
        /\ ref.row_from <= ref.row_to
        /\ \A j \in ref.row_from..ref.row_to : f[j] \in DigitChars
        /\ a > 1 => f[a - 1] \notin WordChars
        /\ ref.row_to < Len(f) => f[ref.row_to + 1] \notin WordChars
        /\ DigitsValue(Slice(f, ref.row_from, ref.row_to)) <= U32Max
        /\ ~InsideString(f, a)}

\* A reference starts at a, and a is not the column of a reference that starts
\* at the '$' before it.
ReferenceStart(f, a) ==
    /\ ReferencesAt(f, a) # {}
    /\ ~(a > 1 /\ f[a - 1] = "$" /\ ReferencesAt(f, a - 1) # {})

ReferenceAt(f, a) == CHOOSE ref \in ReferencesAt(f, a) : TRUE

\* What position i of f contributes to the rewritten formula: a reference gives
\* its locks and letters as they are and the resolved row; the other positions
\* of a reference give nothing; every other character gives itself.
Contribution(f, i, resolver) ==
    IF ReferenceStart(f, i)
    THEN Slice(f, i, ReferenceAt(f, i).row_from - 1)
         \o FormatNat(resolver[DigitsValue(Slice(f, ReferenceAt(f, i).row_from,
                                                 ReferenceAt(f, i).row_to))])
    ELSE IF \E a \in 1..(i - 1) : ReferenceStart(f, a) /\ ReferenceAt(f, a).row_to >= i
    THEN <<>>
    ELSE <<f[i]>>

RECURSIVE Flatten(_)
Flatten(pieces) == IF pieces = <<>> THEN <<>> ELSE Head(pieces) \o Flatten(Tail(pieces))

OnlyRowsRewritten(f, resolver) == Flatten([i \in 1..Len(f) |-> Contribution(f, i, resolver)])

\* C7: rewrite_formula_rows changes nothing but the row numbers of the cell
\* references outside string literals: the row digits become resolver(row), the
\* '$' locks and the column letters stay, and every character of a string
\* literal and every other character passes through; =SUM(A1:A10)+"A1" with
\* r -> r + 5 gives =SUM(A6:A15)+"A1".
C7_OnlyRowNumbersChange ==
    pc = "rw_done" =>
        /\ rewritten = OnlyRowsRewritten(formula, ShiftResolver(resolver_add))
        /\ (formula = SumFormula /\ resolver_add = 5) =>
               rewritten = <<"=", "S", "U", "M", "(", "A", "6", ":", "A", "1", "5", ")",
                             "+", "\"", "A", "1", "\"">>

\* A formula with a locked reference outside and a reference-like text inside a
\* string literal with an escaped quote, rewritten by r -> r + 5.
C7_Witness ==
    /\ pc = "rw_done"
    /\ formula = QuotedFormula
    /\ resolver_add = 5
    /\ rewritten = <<"=", "\"", "a", "\"", "\"", "B", "2", "\"", "&", "$", "b", "$", "7",
                     "&", "\"", "C", "3">>

\* The tokens of f made of letters then digits, outside string literals, that
\* are directly followed by '(' or '!': pairs <<first, last>> of positions.
IdentifierTokens(f) ==
    {tok \in (1..Len(f)) \X (1..Len(f)) :
        /\ tok[1] < tok[2]
        /\ tok[2] < Len(f)
        /\ f[tok[2] + 1] \in {"(", "!"}
        /\ tok[1] > 1 => f[tok[1] - 1] \notin WordChars
        /\ ~InsideString(f, tok[1])
        /\ \E k \in tok[1]..(tok[2] - 1) :
               /\ \A j \in tok[1]..k : f[j] \in Letters
               /\ \A j \in (k + 1)..tok[2] : f[j] \in DigitChars}

\* C8: rewrite_formula_rows never mangles an identifier that is no cell
\* reference: a letters+digits token directly followed by '!' (a sheet name) or
\* by '(' (a function name) appears unchanged, with that character, in the output.
C8_IdentifiersKept ==
    pc = "rw_done" =>
        \A tok \in IdentifierTokens(formula) :
            \E p \in 1..Len(rewritten) :
                StartsAt(rewritten, Slice(formula, tok[1], tok[2] + 1), p)
\* ------------------------------------------- properties of the index builder

\* The records of all files in the order the build meets them: (file, position).
Encounters ==
    UNION {{<<f, i>> : i \in 1..Len(indexer.paths[f].val)} :
               f \in {g \in 1..Len(indexer.paths) : indexer.paths[g].ok}}
EncounterRecord(e) == indexer.paths[e[1]].val[e[2]]
EncounteredLater(a, b) == a[1] > b[1] \/ (a[1] = b[1] /\ a[2] > b[2])

\* The priority tuple of a record, counted field by field.
PriceCount(rec) ==
    (IF rec.gasoline.some THEN 1 ELSE 0) + (IF rec.premium.some THEN 1 ELSE 0)
        + (IF rec.diesel.some THEN 1 ELSE 0)
FilledCount(rec) ==
    (IF Trim(rec.region) # <<>> THEN 1 ELSE 0) + (IF Trim(rec.name) # <<>> THEN 1 ELSE 0)
        + (IF Trim(rec.brand) # <<>> THEN 1 ELSE 0) + (IF Trim(rec.self_yn) # <<>> THEN 1 ELSE 0)
        + (IF Trim(rec.address) # <<>> THEN 1 ELSE 0) + (IF Trim(rec.phone) # <<>> THEN 1 ELSE 0)
TextLength(rec) ==
    str_len(rec.region \o rec.name \o rec.brand \o rec.self_yn \o rec.address \o rec.phone)
Outranks(a, b) ==
    \/ PriceCount(a) > PriceCount(b)
    \/ PriceCount(a) = PriceCount(b) /\ FilledCount(a) > FilledCount(b)
    \/ PriceCount(a) = PriceCount(b) /\ FilledCount(a) = FilledCount(b)
           /\ TextLength(a) > TextLength(b)

\* The encounters of key k, and the one the claim names: no other outranks it,
\* and none of equal rank is met later.
EncountersOf(k) == {e \in Encounters : normalize_address_key(EncounterRecord(e).address) = k}
Winner(k) ==
    CHOOSE e \in EncountersOf(k) :
        \A o \in EncountersOf(k) \ {e} :
            \/ Outranks(EncounterRecord(e), EncounterRecord(o))
            \/ ~Outranks(EncounterRecord(o), EncounterRecord(e)) /\ EncounteredLater(e, o)

\* C13: when the build succeeds, the index holds exactly the keys of the
\* records met, and under each key the record with the greatest priority tuple
\* (non-null price count, non-blank text-field count, total text length), the
\* one met last among those of equal greatest priority.
C13_IndexKeepsGreatest ==
    indexer.status = "done" =>
        /\ DOMAIN indexer.index = {normalize_address_key(EncounterRecord(e).address) : e \in Encounters}
        /\ \A k \in DOMAIN indexer.index : indexer.index[k] = EncounterRecord(Winner(k))

\* A finished build of two files: K1 then K4 (lower priority, not kept), then
\* K2 in the second file (equal to K1, kept as the later one).
C13_Witness ==
    /\ indexer.status = "done"
    /\ Len(indexer.paths) = 2
    /\ indexer.paths[1] = Ok(<<K1, K4>>)
    /\ indexer.paths[2] = Ok(<<K2>>)
    /\ indexer.index[<<"x">>] = K2
    /\ indexer.report.duplicate_address_conflicts = 2
    /\ indexer.report.overwritten_conflicts = 1

\* ------------------------------------------- properties of the address key

\* The address without whitespace and without the punctuation ()[]{},.
Stripped(a) == SelectSeq(a, LAMBDA ch : ch \notin {" ", "(", ")", "[", "]", "{", "}", ",", "."})

\* The long and the short form of the administrative names.
NameForms ==
    {<<<<"chung", "cheong", "nam", "do">>, <<"chung", "nam">>>>,
     <<<<"chung", "cheong", "buk", "do">>, <<"chung", "buk">>>>,
     <<<<"dae", "jeon", "gwang", "yeok", "si">>, <<"dae", "jeon">>>>,
     <<<<"se", "jong", "teuk", "byeol", "ja", "chi", "si">>, <<"se", "jong">>>>}

\* b is a with one long name put in its short form, or the other way round.
OneNameFormApart(a, b) ==
    \E nf \in NameForms : \E i \in 1..Len(a) :
        /\ StartsAt(a, nf[1], i)
        /\ b = Slice(a, 1, i - 1) \o nf[2] \o Slice(a, i + Len(nf[1]), Len(a))

\* a and b differ only in whitespace and punctuation, or only in the form of
\* one administrative name.
DifferOnlyInSpelling(a, b) ==
    \/ Stripped(a) = Stripped(b)
    \/ OneNameFormApart(Stripped(a), Stripped(b))
    \/ OneNameFormApart(Stripped(b), Stripped(a))

\* C14: two addresses that differ only in whitespace, in the punctuation
\* ()[]{},. or in the long versus short form of an administrative name have the
\* same normalize_address_key; the keys of the documented example are equal.
C14_KeyIgnoresSpelling ==
    pc = "key_done" =>
        /\ DifferOnlyInSpelling(call.a, call.b) => call.key_a = call.key_b
        /\ (call.a = LongExample /\ call.b = ShortExample) => call.key_a = call.key_b

\* The documented example alone.
C14_ExampleKeysEqual ==
    (pc = "key_done" /\ call.a = LongExample /\ call.b = ShortExample)
        => (call.key_a = call.key_b /\ call.key_a = ShortExample)

\* The same for addresses whose names are intact, that is, have no whitespace
\* or punctuation inside a long name.
NamesIntact(a) ==
    \A nf \in NameForms : \A i \in 1..Len(Stripped(a)) :
        StartsAt(Stripped(a), nf[1], i) =>
            \E j \in 1..Len(a) : StartsAt(a, nf[1], j)
                                   /\ Stripped(Slice(a, 1, j - 1)) = Slice(Stripped(a), 1, i - 1)
C14_IntactNamesAgree ==
    (pc = "key_done" /\ NamesIntact(call.a) /\ NamesIntact(call.b) /\ Stripped(call.a) = Stripped(call.b))
        => call.key_a = call.key_b

\* ------------------------------------------- properties of the worksheet text

\* The attributes are in the order r, s, t, then the others.
RankOrdered(attrs) ==
    \A i \in 1..Len(attrs) : \A j \in (i + 1)..Len(attrs) :
        attr_sort_key(attrs[i][1])[1] <= attr_sort_key(attrs[j][1])[1]
CanonicalAttributeOrder(ws) ==
    \A r \in DOMAIN ws.rows :
        /\ RankOrdered(ws.rows[r].attrs)
        /\ \A c \in DOMAIN ws.rows[r].cells : RankOrdered(ws.rows[r].cells[c].attrs)

\* C15: for a markup whose row and cell attributes are in the canonical order
\* (r, s, t, then others), Worksheet::parse followed by to_xml returns the
\* markup byte for byte: the prefix and the suffix verbatim, the rows in
\* ascending order, self-closing rows and cells as they were.
C15_RoundTripIdentity ==
    (pc = "xml_written" /\ CanonicalAttributeOrder(call.ws)) =>
        /\ call.out = call.xml
        /\ StartsAt(call.xml, call.ws.prefix, 1)
        /\ StartsAt(call.xml, call.ws.suffix, Len(call.xml) - Len(call.ws.suffix) + 1)

\* What parse keeps of the markup: the prefix and the suffix are verbatim.
C15_PrefixSuffixVerbatim ==
    pc = "xml_written" =>
        /\ StartsAt(call.xml, call.ws.prefix, 1)
        /\ StartsAt(call.xml, call.ws.suffix, Len(call.xml) - Len(call.ws.suffix) + 1)
        /\ StartsAt(call.out, call.ws.prefix, 1)
        /\ StartsAt(call.out, call.ws.suffix, Len(call.out) - Len(call.ws.suffix) + 1)

\* The serialized text is a fixed point: parsed and serialized again it is
\* returned byte for byte.
C15_SerializedRoundTrips ==
    pc = "xml_written" =>
        /\ Worksheet_parse(call.out).ok
        /\ Worksheet_to_xml(Worksheet_parse(call.out).val) = call.out

\* The markups made of the plain rows in ascending order round-trip.
PlainTexts ==
    {SheetHead \o Concat(rws) \o SheetTail :
        rws \in {<<>>, <<PlainRow1>>, <<PlainRow2>>, <<PlainRow3>>, <<PlainRow1, PlainRow2>>,
                 <<PlainRow1, PlainRow3>>, <<PlainRow2, PlainRow3>>}}
C15_PlainRoundTrips ==
    (pc = "xml_written" /\ call.xml \in PlainTexts) => call.out = call.xml

\* ------------------------------------------- properties of renumbering

\* The formula texts of a row, decoded, by column.
FormulaTexts(row) ==
    [c \in {d \in DOMAIN row.cells : row.cells[d].inner.kind = "f"} |->
        decode_xml_entities(row.cells[c].inner.body)]

\* C16: remap_row_numbers(row, r2, identity) followed by
\* remap_row_numbers(result, r1, identity) restores the r attribute of the row
\* and of every cell, and remapping with the identity resolver leaves every
\* formula text unchanged.
C16_RenumberClosure ==
    pc = "rn_back" =>
        /\ call.back.r = call.row.r
        /\ \A c \in DOMAIN call.row.cells : call.back.cells[c].r = call.row.cells[c].r
        /\ FormulaTexts(call.there) = FormulaTexts(call.row)
        /\ FormulaTexts(call.back) = FormulaTexts(call.row)

\* The row numbers alone: the first remap sets them to r2, the second restores
\* them, and the cells that are not formulas are untouched.
C16_NumbersRestored ==
    pc = "rn_back" =>
        /\ call.there.r = call.r2
        /\ call.back.r = call.row.r
        /\ DOMAIN call.back.cells = DOMAIN call.row.cells
        /\ \A c \in DOMAIN call.row.cells :
               /\ call.there.cells[c].r = call.r2
               /\ call.back.cells[c].r = call.row.cells[c].r
               /\ call.row.cells[c].inner.kind # "f" => call.back.cells[c] = call.row.cells[c]

\* The formulas in which every run of digits behind letters has no leading zero
\* keep their text.
NoLeadingZero(f) ==
    \A i \in 2..Len(f) : (f[i] = "0" /\ i < Len(f) /\ f[i + 1] \in DigitChars) => f[i - 1] \in DigitChars
C16_PlainNumbersKept ==
    (pc = "rn_back" /\ NoLeadingZero(FormulaTexts(call.row)[2]))
        => (FormulaTexts(call.there) = FormulaTexts(call.row) /\ FormulaTexts(call.back) = FormulaTexts(call.row))

\* ------------------------------------------- properties of the compound file reader

\* The stream entry of the file, whether the call asked for it, and the table
\* and unit of the chain read_stream_by_name follows for it.
StreamEntry == cfb.file.directory[2]
StreamRead == pc = "cfb" /\ cfb.pc = "done" /\ cfb.name = "Workbook"
InMiniStream ==
    StreamEntry.stream_size < cfb.file.mini_stream_cutoff_size
        /\ is_regular_sector_id(StreamEntry.start_sector)
ChainTable == IF InMiniStream THEN cfb.file.mini_fat ELSE cfb.file.fat
ChainUnit == IF InMiniStream THEN cfb.file.mini_sector_size ELSE cfb.file.sector_size

\* The sectors of the chain from sid, up to the first that is a sentinel, has
\* no link in the table, or was met before.
RECURSIVE ChainSectors(_, _, _)
ChainSectors(table, sid, met) ==
    IF ~is_regular_sector_id(sid) \/ sid + 1 > Len(table) \/ sid \in met THEN met
    ELSE IF table[sid + 1] = CFB_FREE_SECT THEN met \cup {sid}
    ELSE ChainSectors(table, table[sid + 1], met \cup {sid})

\* The chain from sid has a link back to a sector met before.
RECURSIVE LinksBack(_, _, _)
LinksBack(table, sid, met) ==
    IF ~is_regular_sector_id(sid) \/ sid + 1 > Len(table) THEN FALSE
    ELSE IF sid \in met THEN TRUE
    ELSE LinksBack(table, table[sid + 1], met \cup {sid})

ReachableBytes == ChainUnit * Cardinality(ChainSectors(ChainTable, StreamEntry.start_sector, {}))

\* C18: whenever the chain that starts at the start sector of a stream has a
\* link back to a sector already visited, reading the stream returns an
\* error, never data.
C18_CycleRejected ==
    (StreamRead /\ LinksBack(ChainTable, StreamEntry.start_sector, {})) => ~cfb.result.ok

\* Following a chain terminates: every read reaches its return.
C18_ChainTerminates == <>(pc = "cfb" /\ cfb.pc = "done")

\* Each pass through a loop adds a sector that was not seen before.
C18_SeenGrows ==
    [][(cfb.pc \in {"fat_loop", "mini_loop"} /\ cfb'.pc = cfb.pc)
           => (cfb.sid \notin cfb.seen /\ cfb'.seen = cfb.seen \cup {cfb.sid})]_vars

\* A link back is an error when the declared size asks for more bytes than
\* the sectors before it hold.
C18_RevisitRejected ==
    (StreamRead /\ LinksBack(ChainTable, StreamEntry.start_sector, {})
        /\ StreamEntry.stream_size > ReachableBytes) => ~cfb.result.ok

\* A read that returns data although the chain links back.
C18_DataDespiteLinkBack ==
    StreamRead /\ LinksBack(ChainTable, StreamEntry.start_sector, {})
        /\ cfb.result.ok /\ cfb.result.val # <<>>

\* C19: reading a named stream never yields partial output: a declared size
\* above the file size, or above the bytes reachable through the chain, is an
\* error, and a buffer that is returned has exactly the declared length.
C19_NoPartialOutput ==
    StreamRead =>
        /\ (StreamEntry.stream_size > cfb.file.data_len \/ StreamEntry.stream_size > ReachableBytes)
               => ~cfb.result.ok
        /\ cfb.result.ok => Len(cfb.result.val) = StreamEntry.stream_size

\* The buffer is never longer than the declared size, and has the declared
\* length when the chain reaches that many bytes.
C19_AtMostDeclared ==
    (StreamRead /\ cfb.result.ok) =>
        /\ Len(cfb.result.val) <= StreamEntry.stream_size
        /\ StreamEntry.stream_size <= ReachableBytes => Len(cfb.result.val) = StreamEntry.stream_size

\* A read that returns fewer bytes than declared.
C19_ShortBuffer ==
    StreamRead /\ cfb.result.ok /\ cfb.result.val # <<>>
        /\ Len(cfb.result.val) < StreamEntry.stream_size

\* ------------------------------------------- properties of the source file reader

\* What one sheet of the file yields on its own.
SheetCount ==
    IF call.file.kind = "xls" THEN Len(call.file.boundsheets) ELSE Len(call.file.sheets)
SheetYield(i) ==
    IF call.file.kind = "xls"
    THEN IF call.file.boundsheets[i].sheet_type # 0 THEN Ok(<<>>)
         ELSE IF ~parse_biff_worksheet_cells(call.file.stream, call.file.boundsheets[i].offset).ok
         THEN SourceError
         ELSE build_source_records_from_rows(
                  parse_biff_worksheet_cells(call.file.stream, call.file.boundsheets[i].offset).val)
    ELSE IF ~call.file.sheets[i].readable THEN SourceError
    ELSE parse_sheet_source_records(call.file.sheets[i])

UsableRecords == Concat([i \in 1..SheetCount |-> SheetYield(i).val])
SourceRead == pc = "source_read"

\* The record stream of sheet i is truncated or malformed.
BadRecordStream(i) ==
    IF call.file.kind = "xls"
    THEN call.file.boundsheets[i].sheet_type = 0
             /\ ~parse_biff_worksheet_cells(call.file.stream, call.file.boundsheets[i].offset).ok
    ELSE call.file.sheets[i].readable /\ ~call.file.sheets[i].well_formed

\* C20: reading a source file of several sheets (xls or xlsx) fails only if
\* every sheet failed: whenever at least one worksheet yields at least one
\* record, the read succeeds with the records of the usable sheets, even if
\* another sheet has a truncated or malformed record stream.
C20_UsableSheetsSuffice ==
    (SourceRead /\ UsableRecords # <<>>
        /\ \A i \in 1..SheetCount : SheetYield(i).ok \/ BadRecordStream(i))
        => call.result = Ok(UsableRecords)

\* The same for xlsx files alone.
C20_XlsxUsableSheetsSuffice ==
    (SourceRead /\ call.file.kind = "xlsx" /\ UsableRecords # <<>>
        /\ \A i \in 1..SheetCount : SheetYield(i).ok \/ BadRecordStream(i))
        => call.result = Ok(UsableRecords)

\* An xlsx read with a malformed sheet beside a usable one.
C20_XlsxPartialSuccess ==
    SourceRead /\ call.file.kind = "xlsx" /\ call.result.ok
        /\ \E i \in 1..SheetCount : BadRecordStream(i)

\* For xls files: when no record stream is damaged the usable sheets
\* suffice, and one damaged worksheet stream fails the read.
C20_XlsDamagedStreamFails ==
    (SourceRead /\ call.file.kind = "xls") =>
        IF \E i \in 1..SheetCount : BadRecordStream(i) THEN ~call.result.ok
        ELSE IF UsableRecords # <<>> THEN call.result = Ok(UsableRecords)
        ELSE ~call.result.ok

\* A read never succeeds without records.
C20_SuccessHasRecords ==
    (SourceRead /\ call.result.ok) => call.result.val # <<>>

\* ------------------------------------------- properties of single-byte text

Decoded == pc = "decode_done"
NoCodePage == call.globals.val = None

\* C21: when the globals pass finds no code-page record, the single-byte text
\* of shared strings and labels is decoded as code page 949 is.
C21_AbsentMeansCp949 ==
    (Decoded /\ NoCodePage) =>
        call.text = decode_single_byte_text(call.bytes, Some(949), call.env)

\* In the Windows build, when the system decodes the bytes as code page 949,
\* an absent code page gives the text of code page 949; ASCII text is the
\* same in every build.
C21_WindowsValidAgrees ==
    (Decoded /\ NoCodePage
        /\ (\/ call.env.windows /\ Cp949Strict(call.bytes).some
            \/ \A i \in 1..Len(call.bytes) : IsAsciiByte(call.bytes[i])))
        => call.text = decode_single_byte_text(call.bytes, Some(949), call.env)

\* Outside Windows an absent code page is decoded as Latin-1.
C21_ElsewhereLatin1 ==
    (Decoded /\ NoCodePage /\ ~call.env.windows) => call.text = Ok(decode_latin1(call.bytes))

\* The globals pass finds no code page exactly when no CODEPAGE record of at
\* least 2 bytes is among the records it reads.
C21_NoCodePageRecord ==
    (pc = "decode_globals" /\ call.globals.ok /\ NoCodePage) =>
        \A i \in 1..Len(call.records) : ~(call.records[i].id = 66 /\ call.records[i].len >= 2)

\* ------------------------------------------- properties of RK numbers

\* The value as a signed number of RkWidth bits, and its quotient by 4
\* rounded down.
RkSigned == IF call.rk >= Pow2(RkWidth - 1) THEN call.rk - Pow2(RkWidth) ELSE call.rk
RkQuarter == CHOOSE q \in (0 - Pow2(RkWidth))..Pow2(RkWidth) : 4 * q <= RkSigned /\ RkSigned < 4 * (q + 1)
IntegerFlag == (call.rk \div 2) % 2 = 1
Div100Flag == call.rk % 2 = 1

\* C22: an RK value with the integer flag set decodes to its upper bits read
\* as a signed value (the value shifted right by 2 with the sign kept),
\* divided by 100 exactly when the flag of bit 0 is set; the value 2 decodes
\* to 0.
C22_IntegerForm ==
    (pc = "rk_done" /\ IntegerFlag) =>
        /\ call.value.form = "int"
        /\ call.value.num = RkQuarter
        /\ call.value.den = (IF Div100Flag THEN 100 ELSE 1)
        /\ call.rk = 2 => (call.value.num = 0 /\ call.value.den = 1)

\* A negative integer form with the division by 100.
C22_Witness ==
    pc = "rk_done" /\ IntegerFlag /\ Div100Flag /\ call.value.num < 0 /\ call.value.den = 100

\* ------------------------------------------- properties of saving the workbook

\* The steps of save_as before the final promote.
StepsBeforePromote == {"tools", "archive", "dir", "temp", "copy", "verify"}

C23_SuccessPromoted ==
    (pc = "save" /\ saver.at = "returned" /\ saver.result = "ok")
        => (saver.dest = "new" /\ saver.tmp = "absent")

\* ------------------------------------------- properties of reserving an output path

Reserved(run) == reserve.runs[run].at = "returned" /\ reserve.runs[run].result = "ok"

\* C24: for any interleaving of the runs that reserve the same requested
\* path, also with a stale reservation marker in the folder, no two runs are
\* returned the same path.
C24_NoSharedPath ==
    pc = "reserve" =>
        \A a \in RunIds : \A b \in RunIds :
            (a # b /\ Reserved(a) /\ Reserved(b)) => reserve.runs[a].seq # reserve.runs[b].seq

\* Without a stale marker in the folder the paths returned are distinct.
C24_DistinctWithoutStale ==
    (pc = "reserve" /\ \A seq \in 0..MAX_CONFLICT_ATTEMPTS : reserve.initial[seq] # Marker(TRUE)) =>
        \A a \in RunIds : \A b \in RunIds :
            (a # b /\ Reserved(a) /\ Reserved(b)) => reserve.runs[a].seq # reserve.runs[b].seq

\* A run removes a marker that is no longer stale: one that another run
\* wrote after this run had read the stale one.
C24_FreshMarkerRemoved ==
    pc = "reserve" /\ \E a \in RunIds : \E b \in RunIds :
        /\ a # b /\ Reserved(b) /\ reserve.runs[a].at = "open"
        /\ reserve.runs[a].seq = reserve.runs[b].seq
        /\ reserve.files[reserve.runs[b].seq] = Absent

\* ------------------------------------------- properties of the change record

NotWhitespace(c) == ~is_whitespace(c)
DigitsOf(text) == SelectSeq(text, is_ascii_digit)

\* The fields that differ between the old row and the authoritative record.
PriceDiffers ==
    call.old.gasoline # call.src.gasoline \/ call.old.premium # call.src.premium
        \/ call.old.diesel # call.src.diesel
NameDiffers == Trim(call.old.name) # Trim(call.src.name)
BrandDiffers == Trim(call.old.brand) # Trim(call.src.brand)
SelfYnDiffers == SelectSeq(call.old.self_yn, NotWhitespace) # SelectSeq(call.src.self_yn, NotWhitespace)
AddressDiffers == normalize_address_key(call.old.address) # normalize_address_key(call.src.address)
PhoneDiffers ==
    IF DigitsOf(call.old.phone) = <<>> /\ DigitsOf(call.src.phone) = <<>>
    THEN Trim(call.old.phone) # Trim(call.src.phone)
    ELSE DigitsOf(call.old.phone) # DigitsOf(call.src.phone)

ReasonTags ==
    (IF PriceDiffers THEN <<"price">> ELSE <<>>) \o (IF NameDiffers THEN <<"name">> ELSE <<>>)
        \o (IF BrandDiffers THEN <<"brand">> ELSE <<>>)
        \o (IF SelfYnDiffers THEN <<"self_yn">> ELSE <<>>)
        \o (IF AddressDiffers THEN <<"address">> ELSE <<>>)
        \o (IF PhoneDiffers THEN <<"phone">> ELSE <<>>)

\* C25: a change record is produced exactly when the name (trimmed), the
\* brand (trimmed), the self-service flag (whitespace-insensitive), the
\* address (normalized key), the phone (digits only, trimmed text when both
\* digit strings are empty) or one of the three prices differs, and its
\* reason is the tags of the differing fields in the order price, name,
\* brand, self-service, address, phone, with one price tag.
C25_ChangeExactlyOnDifference ==
    pc = "change_done" =>
        /\ call.change.some <=> ReasonTags # <<>>
        /\ call.change.some => call.change.val.reason = ReasonTags

\* The same when the flags hold no whitespace other than spaces.
C25_SpacesOnly ==
    (pc = "change_done"
        /\ \A i \in 1..Len(call.src.self_yn) : call.src.self_yn[i] \notin {"\t", "\n", "\r", "\f"})
        => /\ call.change.some <=> ReasonTags # <<>>
           /\ call.change.some => call.change.val.reason = ReasonTags

\* A change record whose only reason is the flag, for flags that differ in
\* a tab.
C25_TabInFlag ==
    pc = "change_done" /\ ~SelfYnDiffers /\ call.change.some
        /\ call.change.val.reason = <<"self_yn">>

\* ------------------------------------------- properties of the chain sentinels

\* The links of the sectors of the chain of the stream.
ChainLinks == {ChainTable[sid + 1] : sid \in ChainSectors(ChainTable, StreamEntry.start_sector, {})}

\* C26: a chain in which a link is a sentinel other than end-of-chain (free,
\* FAT-sector or DIFAT-sector) makes the read fail; the bytes collected so
\* far are not returned.
C26_OnlyEndOfChainEnds ==
    (StreamRead /\ ChainLinks \cap {CFB_FREE_SECT, CFB_FAT_SECT, CFB_DIFAT_SECT} # {})
        => ~cfb.result.ok

\* A FAT-sector or DIFAT-sector link is an error when the declared size asks
\* for more bytes than the sectors before it hold.
C26_TableSentinelRejected ==
    (StreamRead /\ ChainLinks \cap {CFB_FAT_SECT, CFB_DIFAT_SECT} # {}
        /\ StreamEntry.stream_size > ReachableBytes) => ~cfb.result.ok

\* A read that returns fewer bytes than declared from a chain that ends in
\* a free link.
C26_FreeLinkReturnsData ==
    StreamRead /\ CFB_FREE_SECT \in ChainLinks /\ cfb.result.ok /\ cfb.result.val # <<>>
        /\ Len(cfb.result.val) < StreamEntry.stream_size

\* ----------------------------------------- properties of the setters of a cell

\* The cell at B1 exists and a setter has been applied to it.
CellWritten == pc = "cell" /\ call.calls > 0 /\ 1 \in DOMAIN call.rows /\ 2 \in DOMAIN call.rows[1].cells
TheCell == call.rows[1].cells[2]

\* The t attribute agrees with the content of the cell.
TypeMatchesContent(cell) ==
    /\ cell.t = "inlineStr" <=> cell.inner.kind = "is"
    /\ cell.inner.kind \in {"v", "none"} => cell.t = ""
    /\ cell.inner.kind = "f" => cell.t # "inlineStr"

\* C27: after any sequence of set_string_at, set_i32_at, set_formula_at and
\* clear_cell_if_exists on one cell, t is "inlineStr" exactly when the content
\* is an inline string, t is absent on a numeric or blank cell, and a cell
\* holding a formula is not tagged inlineStr.
C27_TypeMatchesContent == CellWritten => TypeMatchesContent(TheCell)

\* The t attribute agrees with the content after set_string_at, set_i32_at
\* and clear_cell_if_exists, and after set_formula_at on a cell that was not
\* an inline string; set_formula_at always leaves <f> with a <v>.
C27_MatchesUnlessFormulaOverString ==
    CellWritten =>
        /\ call.last # "formula" => TypeMatchesContent(TheCell)
        /\ call.last = "formula" => (TheCell.inner.kind = "f" /\ extract_first_v(TheCell.inner).some)
        /\ TypeMatchesContent(TheCell) \/ (TheCell.inner.kind = "f" /\ TheCell.t = "inlineStr")

\* A formula cell tagged inlineStr: set_formula_at after set_string_at.
C27_FormulaTaggedInlineStr ==
    CellWritten /\ call.last = "formula" /\ TheCell.inner.kind = "f" /\ TheCell.t = "inlineStr"

\* ------------------------------------------- properties of the CP949 cache

RECURSIVE SumOfEntries(_, _)
SumOfEntries(map, keys) ==
    IF keys = {} THEN 0
    ELSE LET k == CHOOSE x \in keys : TRUE
         IN  Len(k) + Len(map[k]) + SumOfEntries(map, keys \ {k})

\* total_bytes is the sum over the stored entries and within the bound, and
\* the queue holds the stored keys once each.
CacheConsistent(c) ==
    /\ c.total_bytes = SumOfEntries(c.map, DOMAIN c.map)
    /\ c.total_bytes <= CP949_CACHE_MAX_BYTES
    /\ {c.order[i] : i \in 1..Len(c.order)} = DOMAIN c.map
    /\ \A i, j \in 1..Len(c.order) : c.order[i] = c.order[j] => i = j

\* The last n elements of a queue.
LastOf(order, n) == SubSeq(order, Len(order) - n + 1, Len(order))

\* What a put of (bytes, decoded) does to the cache: too large an entry
\* leaves the cache empty; otherwise the entry is stored last in the queue
\* and the entries that stay are the newest of the others, no fewer than fit.
PutEffect(c, d, bytes, decoded) ==
    LET entry_size == Len(bytes) + Len(decoded)
        others == Retain(c.order, bytes)
        kept == Len(d.order) - 1
    IN  IF entry_size > CP949_CACHE_MAX_BYTES THEN d = EmptyCache
        ELSE /\ d.order # <<>> /\ d.order[Len(d.order)] = bytes /\ d.map[bytes] = decoded
             /\ kept <= Len(others)
             /\ SubSeq(d.order, 1, kept) = LastOf(others, kept)
             /\ \A k \in DOMAIN d.map \ {bytes} : d.map[k] = c.map[k]
             /\ kept < Len(others) =>
                    SumOfEntries(c.map, {others[i] : i \in (Len(others) - kept)..Len(others)}) + entry_size
                        > CP949_CACHE_MAX_BYTES

\* The step is a put by caller t.
PutBy(t) == cache.pending[t].some /\ ~cache'.pending[t].some

CarriedRows ==
    {r \in DOMAIN rows_before :
        ~(result.row_mapper.has_old_rows /\ r >= DataStart /\ r <= result.row_mapper.old_end_row)}

\* The numbers of kept rows and of added rows of the run.
KeptCount == Len(evaluate_master_rows(rows_before, result.old_rows, source_index).kept_source_rows)
AddedCount == Len(result.added)

\* The row numbers the inserts of the rebuild go to: the carried rows, then
\* the kept rows, then the added rows.
CarriedTargets == {RebasedRow(r, DataStart, result.row_mapper) : r \in CarriedRows}
PlacedTargets == DataStart..(DataStart + KeptCount + AddedCount - 1)

\* C29: rebuilding the master sheet never places two surviving rows on one
\* row number: rows above the band, the packed kept rows, the added rows and
\* the shifted rows below the band receive pairwise distinct row numbers, so
\* no insert into the new row map overwrites an earlier one.
C29_DistinctRowNumbers ==
    Succeeded =>
        /\ \A r1, r2 \in CarriedRows :
               RebasedRow(r1, DataStart, result.row_mapper) = RebasedRow(r2, DataStart, result.row_mapper)
                   => r1 = r2
        /\ CarriedTargets \cap PlacedTargets = {}
        /\ DOMAIN result.rows = CarriedTargets \cup PlacedTargets
        /\ Cardinality(DOMAIN result.rows) = Cardinality(CarriedRows) + KeptCount + AddedCount

\* A run that deletes a row, keeps a row and adds a row on a sheet with rows
\* above and below the band.
C29_Witness ==
    /\ Succeeded
    /\ Len(result.deleted) > 0 /\ KeptCount > 0 /\ AddedCount > 0
    /\ \E r \in CarriedRows : r > result.row_mapper.old_end_row
    /\ \E r \in CarriedRows : r < DataStart

\* A run with more added rows than deleted rows and a row below the band.
C29_GrowingBand ==
    /\ Succeeded
    /\ result.row_mapper.increase > 0
    /\ \E r \in CarriedRows : r > result.row_mapper.old_end_row

\* ------------------------------------ properties of the rows kept unchanged

\* The kept rows of the run in their order, and the row each one is packed to.
KeptSourceRows == evaluate_master_rows(rows_before, result.old_rows, source_index).kept_source_rows
KeptNewRow(i) == DataStart + (i - 1)

\* Kept row i has no change record.
NoChangeRecord(i) == ~evaluate_master_row(rows_before, KeptSourceRows[i].old_row, source_index).change.some

\* The columns of name, brand, self-service flag, address, phone and the prices.
ComparedColumns == {3, 4, 5, 6, 7, 8, 9, 11}

\* C30: a kept row without a change record shows the same values in its name,
\* brand, self-service flag, address, phone and price cells after the run as
\* before it.
C30_SilentRowsUntouched ==
    Succeeded =>
        \A i \in 1..Len(KeptSourceRows) :
            NoChangeRecord(i) =>
                \A c \in ComparedColumns :
                    get_display_at(result.rows, c, KeptNewRow(i))
                        = get_display_at(rows_before, c, KeptSourceRows[i].old_row)

\* A kept row without a change record holds after the run what the comparison
\* of build_change_row_if_needed treats as equal to what it held before.
C30_SilentRowsComparedEqual ==
    Succeeded =>
        \A i \in 1..Len(KeptSourceRows) :
            NoChangeRecord(i) =>
                build_change_row_if_needed(ExistingMasterRow(rows_before, KeptSourceRows[i].old_row),
                                           ExistingMasterRow(result.rows, KeptNewRow(i))) = None

\* A kept row matched to a source record, without a change record, one of
\* whose cells shows another text after the run.
C30_SilentRewrite ==
    /\ Succeeded
    /\ \E i \in 1..Len(KeptSourceRows) :
         /\ KeptSourceRows[i].src.some
         /\ NoChangeRecord(i)
         /\ \E c \in ComparedColumns :
                get_display_at(result.rows, c, KeptNewRow(i))
                    # get_display_at(rows_before, c, KeptSourceRows[i].old_row)

============================================================================
